---- MODULE Spec2Model ----
(***************************************************************************)
(* Model of the rewrite acceptance / drift-check pipeline of               *)
(* V2--time_rewrite_app/app/llm.py.                                        *)
(*                                                                         *)
(* A Python str is a sequence of one-character strings.  A Python value    *)
(* (what json.loads returns, what a JSON response body holds) is a record  *)
(* [t, s, n, kids]: t is the type tag, s the characters of a str, n the    *)
(* value of an int or bool, kids the items of a list or the alternating    *)
(* key, value items of a dict.                                             *)
(*                                                                         *)
(* Two specifications share the module.  Spec is one call of call_ollama,  *)
(* step by step.  CallSpec is one call of one of the pure helpers of       *)
(* llm.py and of app/validators.py on an argument drawn from a bounded     *)
(* set; fn, arg and ret hold the callee, its argument and how it ended.    *)
(* SaveSpec, AdminSpec, HistorySpec and SeedSpec are the request handlers  *)
(* and the start-up code that work on the database: db holds the tables,   *)
(* reqs the requests in flight with their locals, now the clock.           *)
(***************************************************************************)
EXTENDS Integers, Sequences, FiniteSets, TLC

VARIABLES
    pc,        \* position inside call_ollama
    original,  \* argument: the narrative
    hours,     \* argument: the hours value
    rules,     \* argument: the client rules ("none" or a rule-set name)
    reply,     \* what the POST ended with: an exception or the decoded body
    raw_text,  \* data.get("response", ""), a Python value
    parsed,    \* what _extract_json returned, a Python value
    fields,    \* the locals standard, client_compliant, audit_safe, notes
    outcome,   \* which return or raise statement ended the call
    result,    \* the RewriteResponse returned
    fn,        \* CallSpec: the function called
    arg,       \* CallSpec: its argument
    ret,       \* CallSpec: how the call ended, a value returned or an exception
    db,        \* the tables of the database, each a set or sequence of rows
    reqs,      \* the requests: handler, arguments, position, locals, response
    now        \* datetime.utcnow() in milliseconds

vars == <<pc, original, hours, rules, reply, raw_text, parsed, fields, outcome, result,
          fn, arg, ret, db, reqs, now>>

\* The variables of the handlers that work on the database.
store == <<db, reqs, now>>

\* No database and no request: what store is while a helper or call_ollama
\* runs alone.
NoStore == db = <<>> /\ reqs = <<>> /\ now = 0

(***************************************************************************)
(* Characters                                                              *)
(***************************************************************************)
LowerLetters ==
    <<"a","b","c","d","e","f","g","h","i","j","k","l","m",
      "n","o","p","q","r","s","t","u","v","w","x","y","z">>

UpperLetters ==
    <<"A","B","C","D","E","F","G","H","I","J","K","L","M",
      "N","O","P","Q","R","S","T","U","V","W","X","Y","Z">>

Digits == <<"0","1","2","3","4","5","6","7","8","9">>

Range(seq) == {seq[i] : i \in DOMAIN seq}

IndexOf(seq, c) == CHOOSE i \in DOMAIN seq : seq[i] = c

LowerSet == Range(LowerLetters)
UpperSet == Range(UpperLetters)
DigitSet == Range(Digits)

\* str.lower() of one character.  The sharp s has no lower-case change.
Lower(c) ==
    IF c \in UpperSet THEN LowerLetters[IndexOf(UpperLetters, c)] ELSE c

\* str.upper() of one character: a str, because the sharp s upper-cases to
\* two characters.
Upper(c) ==
    IF c \in LowerSet THEN <<UpperLetters[IndexOf(LowerLetters, c)]>>
    ELSE IF c = "ß" THEN <<"S", "S">>
    ELSE <<c>>

\* What the pattern \w matches (a str pattern: Unicode letters count).
WordChars == LowerSet \cup UpperSet \cup DigitSet \cup {"_", "ß"}

IsWordChar(c) == c \in WordChars

\* What str.strip() removes.
IsSpace(c) == c \in {" ", "\n", "\t"}

ToLower(text) == [i \in DOMAIN text |-> Lower(text[i])]

\* str.strip()
RECURSIVE LStrip(_)
LStrip(text) ==
    IF text # <<>> /\ IsSpace(Head(text)) THEN LStrip(Tail(text)) ELSE text

RECURSIVE RStrip(_)
RStrip(text) ==
    IF text # <<>> /\ IsSpace(text[Len(text)])
    THEN RStrip(SubSeq(text, 1, Len(text) - 1))
    ELSE text

Strip(text) == RStrip(LStrip(text))

\* re.findall(r"\b\w+\b", text): the maximal runs of word characters, in order.
\* The last position of the run of word characters that holds position i.
RECURSIVE RunEnd(_, _)
RunEnd(text, i) ==
    IF i < Len(text) /\ IsWordChar(text[i + 1]) THEN RunEnd(text, i + 1) ELSE i

RECURSIVE FindWordsFrom(_, _)
FindWordsFrom(text, i) ==
    IF i > Len(text) THEN <<>>
    ELSE IF ~IsWordChar(text[i]) THEN FindWordsFrom(text, i + 1)
    ELSE LET j == RunEnd(text, i)
         IN  <<SubSeq(text, i, j)>> \o FindWordsFrom(text, j + 1)

FindWords(text) == FindWordsFrom(text, 1)

(***************************************************************************)
(* Drift config                                                            *)
(***************************************************************************)
STOPWORDS == {
    <<"t","h","e">>, <<"a">>, <<"a","n">>, <<"a","n","d">>, <<"o","r">>,
    <<"b","u","t">>, <<"o","f">>, <<"t","o">>, <<"i","n">>, <<"o","n">>,
    <<"f","o","r">>, <<"w","i","t","h">>,
    <<"b","y">>, <<"a","t">>, <<"f","r","o","m">>, <<"a","s">>, <<"i","s">>,
    <<"a","r","e">>, <<"w","a","s">>, <<"w","e","r","e">>, <<"b","e">>,
    <<"b","e","e","n">>, <<"b","e","i","n","g">>,
    <<"t","h","i","s">>, <<"t","h","a","t">>, <<"t","h","e","s","e">>,
    <<"t","h","o","s","e">>, <<"i","t">>, <<"i","t","s">>, <<"i","n","t","o">>,
    <<"a","b","o","u","t">>,
    <<"r","e","g","a","r","d","i","n","g">>, <<"r","e","l","a","t","e","d">>,
    <<"r","e">>, <<"r","e",":">> }

MUST_PRESERVE_TOKENS == {
    <<"f","a","r","t","s">>, <<"b","u","t","t">>, <<"t","o","i","l","e","t">>,
    <<"p","o","o","p">>, <<"n","s","f","w">> }

\* DRIFT_MIN_OVERLAP = 0.30, in hundredths.
DRIFT_MIN_OVERLAP == 30

(***************************************************************************)
(* _tokenize and _too_much_drift                                           *)
(***************************************************************************)
\* A variant of _tokenize that keeps the case of the text.
_tokenize_case_kept(text) ==
    SelectSeq(FindWords(text), LAMBDA w : w \notin STOPWORDS)

\* A variant of _tokenize that drops the stopwords before it lower-cases.
_tokenize_filter_first(text) ==
    LET kept == SelectSeq(FindWords(text), LAMBDA w : w \notin STOPWORDS)
    IN  [i \in DOMAIN kept |-> ToLower(kept[i])]

_tokenize(text) ==
    SelectSeq(FindWords(ToLower(text)), LAMBDA w : w \notin STOPWORDS)

\* overlap_ratio < DRIFT_MIN_OVERLAP, where
\* overlap_ratio = 1.0 - (len(missing) / len(o_set)).  The comparison of the
\* two floats is decided as the comparison of the rationals they round:
\* the quotient is correctly rounded, so a ratio of exactly 3/10 computes to
\* 1.0 - 0.7 = 0.30000000000000004, which is not below 0.30, and any other
\* ratio differs from 3/10 by at least 1/(10 * len(o_set)).
OverlapTooLow_inclusive(n_missing, n_original) ==
    100 * (n_original - n_missing) <= DRIFT_MIN_OVERLAP * n_original

OverlapTooLow(n_missing, n_original) ==
    100 * (n_original - n_missing) < DRIFT_MIN_OVERLAP * n_original

\* Variants of _too_much_drift with one slip each: the must-preserve loop
\* left out; the empty original flagged; the two reject conditions joined by
\* "and".
_too_much_drift_threshold_only(orig, rewritten) ==
    LET o_set   == Range(_tokenize(orig))
        r_set   == Range(_tokenize(rewritten))
        missing == o_set \ r_set
    IN  IF o_set = {} THEN FALSE
        ELSE OverlapTooLow(Cardinality(missing), Cardinality(o_set))

_too_much_drift_empty_flagged(orig, rewritten) ==
    LET o_set   == Range(_tokenize(orig))
        r_set   == Range(_tokenize(rewritten))
        missing == o_set \ r_set
    IN  IF o_set = {} THEN TRUE
        ELSE IF OverlapTooLow(Cardinality(missing), Cardinality(o_set)) THEN TRUE
        ELSE \E t \in o_set : t \in MUST_PRESERVE_TOKENS /\ t \in missing

_too_much_drift_both_needed(orig, rewritten) ==
    LET o_set   == Range(_tokenize(orig))
        r_set   == Range(_tokenize(rewritten))
        missing == o_set \ r_set
    IN  IF o_set = {} THEN FALSE
        ELSE /\ OverlapTooLow(Cardinality(missing), Cardinality(o_set))
             /\ \E t \in o_set : t \in MUST_PRESERVE_TOKENS /\ t \in missing

_too_much_drift(orig, rewritten) ==
    LET o_set   == Range(_tokenize(orig))
        r_set   == Range(_tokenize(rewritten))
        missing == o_set \ r_set
    IN  IF o_set = {} THEN FALSE
        ELSE IF OverlapTooLow(Cardinality(missing), Cardinality(o_set)) THEN TRUE
        ELSE \E t \in o_set : t \in MUST_PRESERVE_TOKENS /\ t \in missing

(***************************************************************************)
(* Fallback behavior                                                       *)
(***************************************************************************)
DefaultPhrase ==
    <<"P","e","r","f","o","r","m","e","d"," ","l","e","g","a","l"," ",
      "s","e","r","v","i","c","e","s",".">>

FallbackNote ==
    <<"L","L","M"," ","r","e","w","r","i","t","e"," ","w","a","s"," ",
      "r","e","j","e","c","t","e","d"," ","d","u","e"," ","t","o"," ",
      "p","o","t","e","n","t","i","a","l"," ","s","e","m","a","n","t","i","c"," ",
      "c","h","a","n","g","e"," ","o","r"," ","i","n","v","a","l","i","d"," ",
      "o","u","t","p","u","t","."," ",
      "U","s","i","n","g"," ","a"," ","m","i","n","i","m","a","l"," ",
      "c","l","e","a","n","e","d"," ","v","e","r","s","i","o","n"," ",
      "t","h","a","t"," ","p","r","e","s","e","r","v","e","s"," ","t","h","e"," ",
      "o","r","i","g","i","n","a","l"," ","w","o","r","d","i","n","g",".">>

RewriteResponse(standard, client_compliant, audit_safe, notes) ==
    [standard |-> standard, client_compliant |-> client_compliant,
     audit_safe |-> audit_safe, notes |-> notes]

EndsWithPeriod(text) == text # <<>> /\ text[Len(text)] = "."

\* A variant of _simple_fallback_rewrite without the default phrase.
_simple_fallback_rewrite_no_default(orig) ==
    LET text0 == Strip(orig)
        text1 == IF text0 = <<>> THEN <<>> ELSE Upper(Head(text0)) \o Tail(text0)
        text  == IF EndsWithPeriod(text1) THEN text1 ELSE text1 \o <<".">>
    IN  RewriteResponse(text, text, text, FallbackNote)

\* A variant of _simple_fallback_rewrite that appends the period always.
_simple_fallback_rewrite_always_period(orig) ==
    LET text0 == IF Strip(orig) # <<>> THEN Strip(orig) ELSE DefaultPhrase
        text1 == Upper(Head(text0)) \o Tail(text0)
        text  == text1 \o <<".">>
    IN  RewriteResponse(text, text, text, FallbackNote)

_simple_fallback_rewrite(orig) ==
    LET text0 == IF Strip(orig) # <<>> THEN Strip(orig) ELSE DefaultPhrase
        text1 == Upper(Head(text0)) \o Tail(text0)
        text  == IF EndsWithPeriod(text1) THEN text1 ELSE text1 \o <<".">>
    IN  RewriteResponse(text, text, text, FallbackNote)

(***************************************************************************)
(* Python values                                                           *)
(***************************************************************************)
PStr(s)     == [t |-> "str",  s |-> s,    n |-> 0, kids |-> <<>>]
PInt(n)     == [t |-> "int",  s |-> <<>>, n |-> n, kids |-> <<>>]
PBool(b)    == [t |-> "bool", s |-> <<>>, n |-> IF b THEN 1 ELSE 0, kids |-> <<>>]
PNone       == [t |-> "None", s |-> <<>>, n |-> 0, kids |-> <<>>]
PList(kids) == [t |-> "list", s |-> <<>>, n |-> 0, kids |-> kids]
PDict(kids) == [t |-> "dict", s |-> <<>>, n |-> 0, kids |-> kids]

\* The positions of the keys of a dict: its kids are key, value, key, value.
KeyPositions(kids) == {p \in DOMAIN kids : p % 2 = 1}

\* d[k] = v: a key already there keeps its place and takes the new value.
DictSet(kids, k, v) ==
    IF \E p \in KeyPositions(kids) : kids[p] = k
    THEN [kids EXCEPT ![(CHOOSE p \in KeyPositions(kids) : kids[p] = k) + 1] = v]
    ELSE kids \o <<k, v>>

DictHas(d, key) == \E p \in KeyPositions(d.kids) : d.kids[p] = PStr(key)

DictGet(d, key) ==
    d.kids[(CHOOSE p \in KeyPositions(d.kids) : d.kids[p] = PStr(key)) + 1]

\* sub in text, for two strs
IsSubstring(sub, text) ==
    \E i \in 1..(Len(text) - Len(sub) + 1) : SubSeq(text, i, i + Len(sub) - 1) = sub

\* str(n) for an int n >= 0
RECURSIVE IntToStr(_)
IntToStr(n) ==
    IF n < 10 THEN <<Digits[n + 1]>>
    ELSE IntToStr(n \div 10) \o <<Digits[(n % 10) + 1]>>

\* repr(s) of a str: in single quotes, in double quotes when it holds a single
\* quote and no double quote; the quote, the backslash, the newline and the tab
\* are escaped.
RECURSIVE ReprChars(_, _)
ReprChars(s, quote) ==
    IF s = <<>> THEN <<>>
    ELSE (CASE Head(s) = "\\"  -> <<"\\", "\\">>
            [] Head(s) = "\n"  -> <<"\\", "n">>
            [] Head(s) = "\t"  -> <<"\\", "t">>
            [] Head(s) = quote -> <<"\\", quote>>
            [] OTHER -> <<Head(s)>>) \o ReprChars(Tail(s), quote)

StrRepr(s) ==
    LET quote == IF "'" \in Range(s) /\ "\"" \notin Range(s) THEN "\"" ELSE "'"
    IN  <<quote>> \o ReprChars(s, quote) \o <<quote>>

\* repr(v); the items of a list and of a dict are joined by ", ".
RECURSIVE PyRepr(_)
RECURSIVE ReprItems(_, _)
ReprItems(kids, i) ==
    IF i > Len(kids) THEN <<>>
    ELSE (IF i > 1 THEN <<",", " ">> ELSE <<>>)
             \o PyRepr(kids[i]) \o ReprItems(kids, i + 1)

RECURSIVE ReprMembers(_, _)
ReprMembers(kids, i) ==
    IF i > Len(kids) THEN <<>>
    ELSE (IF i > 1 THEN <<",", " ">> ELSE <<>>)
             \o PyRepr(kids[i]) \o <<":", " ">> \o PyRepr(kids[i + 1])
             \o ReprMembers(kids, i + 2)

PyRepr(v) ==
    CASE v.t = "str"  -> StrRepr(v.s)
      [] v.t = "int"  -> IntToStr(v.n)
      [] v.t = "bool" -> IF v.n = 1 THEN <<"T","r","u","e">> ELSE <<"F","a","l","s","e">>
      [] v.t = "None" -> <<"N","o","n","e">>
      [] v.t = "list" -> <<"[">> \o ReprItems(v.kids, 1) \o <<"]">>
      [] v.t = "dict" -> <<"{">> \o ReprMembers(v.kids, 1) \o <<"}">>

\* str(v)
PyStr(v) == IF v.t = "str" THEN v.s ELSE PyRepr(v)

(***************************************************************************)
(* json.loads, for the JSON the inputs hold: objects, arrays, strings      *)
(* without escapes, unsigned integers, and null, true, false.              *)
(***************************************************************************)
ParseFail == [ok |-> FALSE, v |-> PNone, next |-> 0]

ParseOk(v, next) == [ok |-> TRUE, v |-> v, next |-> next]

\* JSON whitespace
IsJsonSpace(c) == c \in {" ", "\n", "\t"}

\* The first position from i on that holds no JSON whitespace (Len + 1: none).
RECURSIVE SkipWs(_, _)
SkipWs(text, i) ==
    IF i <= Len(text) /\ IsJsonSpace(text[i]) THEN SkipWs(text, i + 1) ELSE i

\* The characters of a string from i on, acc the decoded ones so far, up to the
\* closing quote.  A control character inside is an error (strict mode).  Of
\* the escapes, \" \\ \/ \n \t are decoded.
RECURSIVE ScanString(_, _, _)
ScanString(text, i, acc) ==
    IF i > Len(text) THEN ParseFail
    ELSE IF text[i] = "\"" THEN ParseOk(PStr(acc), i + 1)
    ELSE IF text[i] \in {"\n", "\t"} THEN ParseFail
    ELSE IF text[i] # "\\" THEN ScanString(text, i + 1, Append(acc, text[i]))
    ELSE IF i + 1 > Len(text) THEN ParseFail
    ELSE CASE text[i + 1] \in {"\"", "\\", "/"} ->
                  ScanString(text, i + 2, Append(acc, text[i + 1]))
           [] text[i + 1] = "n" -> ScanString(text, i + 2, Append(acc, "\n"))
           [] text[i + 1] = "t" -> ScanString(text, i + 2, Append(acc, "\t"))
           [] OTHER -> ParseFail

\* A string starts at i (text[i] is the quote).
ParseString(text, i) == ScanString(text, i + 1, <<>>)

RECURSIVE DigitsValue(_)
DigitsValue(ds) ==
    IF ds = <<>> THEN 0
    ELSE 10 * DigitsValue(SubSeq(ds, 1, Len(ds) - 1))
             + (IndexOf(Digits, ds[Len(ds)]) - 1)

\* The last position of the run of digits that holds position i.
RECURSIVE DigitsEnd(_, _)
DigitsEnd(text, i) ==
    IF i < Len(text) /\ text[i + 1] \in DigitSet THEN DigitsEnd(text, i + 1) ELSE i

\* A number starts at i (text[i] is a digit): 0, or a run of digits that does
\* not start with 0.
ParseNumber(text, i) ==
    IF text[i] = "0" THEN ParseOk(PInt(0), i + 1)
    ELSE LET j == DigitsEnd(text, i)
         IN  ParseOk(PInt(DigitsValue(SubSeq(text, i, j))), j + 1)

StartsWithAt(text, i, word) ==
    /\ i + Len(word) - 1 <= Len(text)
    /\ SubSeq(text, i, i + Len(word) - 1) = word

ParseLiteral(text, i) ==
    IF StartsWithAt(text, i, <<"n","u","l","l">>) THEN ParseOk(PNone, i + 4)
    ELSE IF StartsWithAt(text, i, <<"t","r","u","e">>) THEN ParseOk(PBool(TRUE), i + 4)
    ELSE IF StartsWithAt(text, i, <<"f","a","l","s","e">>) THEN ParseOk(PBool(FALSE), i + 5)
    ELSE ParseFail

RECURSIVE ParseValue(_, _)
RECURSIVE ParseItems(_, _, _, _)
RECURSIVE ParseMembers(_, _, _, _)

\* The items of an array from i on (after "[" or ","), acc the items so far.
ParseItems(text, i, acc, first) ==
    IF i > Len(text) THEN ParseFail
    ELSE IF first /\ text[i] = "]" THEN ParseOk(PList(acc), i + 1)
    ELSE LET r == ParseValue(text, i)
             j == SkipWs(text, r.next)
         IN  IF ~r.ok THEN ParseFail
             ELSE IF j > Len(text) THEN ParseFail
             ELSE IF text[j] = ","
                  THEN ParseItems(text, SkipWs(text, j + 1), Append(acc, r.v), FALSE)
             ELSE IF text[j] = "]" THEN ParseOk(PList(Append(acc, r.v)), j + 1)
             ELSE ParseFail

\* The members of an object from i on (after "{" or ","), acc the dict so far.
ParseMembers(text, i, acc, first) ==
    IF i > Len(text) THEN ParseFail
    ELSE IF first /\ text[i] = "}" THEN ParseOk(PDict(acc), i + 1)
    ELSE IF text[i] # "\"" THEN ParseFail
    ELSE LET k    == ParseString(text, i)
             c    == SkipWs(text, k.next)
             r    == ParseValue(text, SkipWs(text, c + 1))
             j    == SkipWs(text, r.next)
             acc2 == DictSet(acc, k.v, r.v)
         IN  IF ~k.ok THEN ParseFail
             ELSE IF c > Len(text) \/ text[c] # ":" THEN ParseFail
             ELSE IF ~r.ok THEN ParseFail
             ELSE IF j > Len(text) THEN ParseFail
             ELSE IF text[j] = ","
                  THEN ParseMembers(text, SkipWs(text, j + 1), acc2, FALSE)
             ELSE IF text[j] = "}" THEN ParseOk(PDict(acc2), j + 1)
             ELSE ParseFail

ParseValue(text, i) ==
    IF i > Len(text) THEN ParseFail
    ELSE CASE text[i] = "\"" -> ParseString(text, i)
           [] text[i] = "{"  -> ParseMembers(text, SkipWs(text, i + 1), <<>>, TRUE)
           [] text[i] = "["  -> ParseItems(text, SkipWs(text, i + 1), <<>>, TRUE)
           [] text[i] \in DigitSet -> ParseNumber(text, i)
           [] OTHER -> ParseLiteral(text, i)

\* json.loads(text): one value, whitespace around it, nothing else.
\* [ok |-> FALSE] stands for the JSONDecodeError.
json_loads(text) ==
    LET r == ParseValue(text, SkipWs(text, 1))
    IN  IF r.ok /\ SkipWs(text, r.next) > Len(text)
        THEN [ok |-> TRUE, v |-> r.v]
        ELSE [ok |-> FALSE, v |-> PNone]

(***************************************************************************)
(* _extract_json                                                           *)
(***************************************************************************)
\* str.find and str.rfind of one character: 0 stands for -1 (positions
\* count from 1 here).
Find(text, c) ==
    IF c \in Range(text) THEN CHOOSE i \in DOMAIN text :
                                  text[i] = c /\ \A k \in 1..(i - 1) : text[k] # c
    ELSE 0

RFind(text, c) ==
    IF c \in Range(text) THEN CHOOSE i \in DOMAIN text :
                                  text[i] = c /\ \A k \in (i + 1)..Len(text) : text[k] # c
    ELSE 0

\* A variant of _extract_json whose slice leaves the closing brace out.
_extract_json_exclusive_slice(raw) ==
    IF raw.t # "str" THEN [ok |-> FALSE, v |-> PNone]
    ELSE LET text   == Strip(raw.s)
             direct == json_loads(text)
             start  == Find(text, "{")
             end    == RFind(text, "}")
         IN  IF direct.ok THEN direct
             ELSE IF start # 0 /\ end # 0 /\ end > start
                  THEN json_loads(SubSeq(text, start, end - 1))
             ELSE [ok |-> FALSE, v |-> PNone]

\* [ok |-> FALSE] stands for an exception: the AttributeError of text.strip()
\* when text is no str, the JSONDecodeError of the second json.loads, or the
\* ValueError.
_extract_json(raw) ==
    IF raw.t # "str" THEN [ok |-> FALSE, v |-> PNone]
    ELSE LET text   == Strip(raw.s)
             direct == json_loads(text)
             start  == Find(text, "{")
             end    == RFind(text, "}")
         IN  IF direct.ok THEN direct
             ELSE IF start # 0 /\ end # 0 /\ end > start
                  THEN json_loads(SubSeq(text, start, end))
             ELSE [ok |-> FALSE, v |-> PNone]

(***************************************************************************)
(* Inputs                                                                  *)
(***************************************************************************)
\* Bounds of the inputs.
MaxWords == 10        \* words of a numbered narrative
MaxOrigPieces == 2    \* pieces of a narrative made of pieces

RECURSIVE Concat(_)
Concat(texts) == IF texts = <<>> THEN <<>> ELSE Head(texts) \o Concat(Tail(texts))

SeqsUpTo(S, n) == UNION {[1..k -> S] : k \in 0..n}

Flagged == <<"f","a","r","t","s">>

\* The k-th numbered word: w1, w2, ...: pairwise distinct, none a stopword.
Word(k) == <<"w">> \o IntToStr(k)

\* The words a..b, each after the first preceded by a blank.
RECURSIVE WordsFromTo(_, _)
WordsFromTo(a, b) ==
    IF a > b THEN <<>>
    ELSE IF a = b THEN Word(a)
    ELSE Word(a) \o <<" ">> \o WordsFromTo(a + 1, b)

\* A narrative of n distinct words; with flag, its first word is a
\* must-preserve token instead of w1.
NumberedOriginal(n, flag) ==
    IF flag THEN Flagged \o (IF n > 1 THEN <<" ">> \o WordsFromTo(2, n) ELSE <<>>)
    ELSE WordsFromTo(1, n)

\* A rewrite that holds the words w1..wb, after the must-preserve token with
\* flag.
NumberedRewrite(b, flag) ==
    (IF flag THEN Flagged \o <<" ">> ELSE <<>>) \o WordsFromTo(1, b)

OrigPieces == {
    <<"F","a","r","t","s">>, <<"t","h","e">>, <<"ß">>, <<" ">>, <<".">> }

\* The sequences of at most n members of S, none twice.
DistinctSeqsUpTo(S, n) ==
    {ps \in SeqsUpTo(S, n) : \A i, j \in DOMAIN ps : i # j => ps[i] # ps[j]}

Originals ==
    {NumberedOriginal(n, flag) : n \in 1..MaxWords, flag \in BOOLEAN}
        \cup {Concat(ps) : ps \in DistinctSeqsUpTo(OrigPieces, MaxOrigPieces)}

Hours == {1, 2}

RuleSets == {"None", "dict"}

\* The values the model puts under "standard".
StandardTexts ==
    {NumberedRewrite(b, flag) : b \in 0..MaxWords, flag \in BOOLEAN}
        \cup { <<>>, <<" ">>,
               <<" ","F","a","r","t","s","."," ">>,
               <<"\\","t","T","h","e"," ","w","1","\\","n">> }

\* JSON text
Quoted(text) == <<"\"">> \o text \o <<"\"">>

KeyStandard == <<"s","t","a","n","d","a","r","d">>
KeyClientCompliant ==
    <<"c","l","i","e","n","t","_","c","o","m","p","l","i","a","n","t">>
KeyAuditSafe == <<"a","u","d","i","t","_","s","a","f","e">>
KeyNotes == <<"n","o","t","e","s">>

Member(key, valueText) == Quoted(key) \o <<":", " ">> \o valueText

\* An object of the given members (each the text of one member).
RECURSIVE JoinMembers(_)
JoinMembers(ms) ==
    IF ms = <<>> THEN <<>>
    ELSE IF Len(ms) = 1 THEN ms[1]
    ELSE ms[1] \o <<",", " ">> \o JoinMembers(Tail(ms))

Object(ms) == <<"{">> \o JoinMembers(ms) \o <<"}">>

\* The texts of JSON values that are put under a key in place of a str.
NonStringTexts == {
    <<"7">>, <<"n","u","l","l">>, <<"t","r","u","e">>,
    <<"[","\"","a","\"",","," ","1","]">>,
    <<"{","\"","k","\"",":"," ","\"","i","t","'","s","\"","}">> }

\* The texts put under "client_compliant", "audit_safe" and "notes" of a
\* well-formed object: two choices that share no text.
OtherFields == {
    << Quoted(<<" ","o","k","."," ">>), Quoted(<<"x">>), Quoted(<<" ","n","\\","t">>) >>,
    << Quoted(<<"F","a","r","t","s">>), Quoted(<<>>), Quoted(<<>>) >> }

WellFormed(std, others) ==
    Object(<< Member(KeyStandard, Quoted(std)),
              Member(KeyClientCompliant, others[1]),
              Member(KeyAuditSafe, others[2]),
              Member(KeyNotes, others[3]) >>)

BaseStandard == <<" ","w","1"," ","w","2","."," ">>
BaseOthers == << Quoted(<<" ","o","k","."," ">>), Quoted(<<"x">>), Quoted(<<" ","n","\\","t">>) >>
BaseObject == WellFormed(BaseStandard, BaseOthers)

\* Objects whose members depart from the schema: a key missing, a value that
\* is no str, notes missing or no str, a key given twice.
SchemaVariants ==
    LET ms == << Member(KeyStandard, Quoted(BaseStandard)),
                 Member(KeyClientCompliant, BaseOthers[1]),
                 Member(KeyAuditSafe, BaseOthers[2]),
                 Member(KeyNotes, BaseOthers[3]) >>
        keys == <<KeyStandard, KeyClientCompliant, KeyAuditSafe, KeyNotes>>
        without(i) == SelectSeq([k \in 1..4 |-> IF k = i THEN <<>> ELSE ms[k]],
                                LAMBDA m : m # <<>>)
    IN  {Object(without(i)) : i \in 1..4}
          \cup {Object([ms EXCEPT ![i] = Member(keys[i], v)]) :
                    i \in 1..4, v \in NonStringTexts}
          \cup {Object(ms \o <<Member(KeyStandard, Quoted(<<"w","9">>))>>),
                Object(<<>>)}

\* Model output that is JSON but no object.
NonObjects == {
    <<"4","2">>, <<"0">>, <<"n","u","l","l">>, <<"f","a","l","s","e">>,
    Quoted(<<"h","i">>), Quoted(KeyStandard),
    <<"[","]">>, <<"[">> \o Quoted(KeyStandard) \o <<"]">>,
    <<"[","1",","," ","2","]">> }

\* Model output with text around the object, and output that is no JSON.
Wrapped ==
    { <<"H","e","r","e",":","\n">> \o BaseObject \o <<"\n","H","o","p","e","!">>,
      <<" ","\n">> \o BaseObject \o <<"\n"," ">>,
      <<"{","s","e","e","}"," ">> \o BaseObject,
      BaseObject \o <<" ","{","e","n","d","}">>,
      <<"1"," ">> \o BaseObject }

Garbage ==
    { <<>>, <<"s","o","r","r","y">>, <<"{">>, <<"}">>, <<"}"," ","{">>,
      <<"{","\"","s","t","a","n","d","a","r","d","\"",":"," ","}">>,
      <<"{","\"","a","\"",":"," ","\"","x","\n","\"","}">> }

RawTexts ==
    {WellFormed(std, others) : std \in StandardTexts, others \in OtherFields}
        \cup SchemaVariants \cup NonObjects \cup Wrapped \cup Garbage

\* What the POST ends with: an exception inside the try block, or the decoded
\* body resp.json() returns.
TransportErrors == {"ConnectError", "TimeoutException", "HTTPStatusError", "JSONDecodeError"}

ResponseKey == <<"r","e","s","p","o","n","s","e">>

Bodies ==
    {PDict(<<PStr(ResponseKey), PStr(text)>>) : text \in RawTexts}
        \cup { PDict(<<>>),
               PDict(<<PStr(ResponseKey), PNone>>),
               PDict(<<PStr(ResponseKey), PInt(5)>>),
               PList(<<>>),
               PStr(BaseObject) }

Replies ==
    {[error |-> e, data |-> PNone] : e \in TransportErrors}
        \cup {[error |-> "", data |-> d] : d \in Bodies}

(***************************************************************************)
(* call_ollama                                                             *)
(***************************************************************************)
NoFields == RewriteResponse(<<>>, <<>>, <<>>, <<>>)

NoReply == [error |-> "", data |-> PNone]

\* ret before the callee has ended; fn, arg and ret while call_ollama runs.
Pending == [kind |-> "pending", val |-> <<>>]

Init ==
    /\ NoStore
    /\ fn = "call_ollama"
    /\ arg = <<>>
    /\ ret = Pending
    /\ pc = "post"
    /\ original \in Originals
    /\ hours \in Hours
    /\ rules \in RuleSets
    /\ reply = NoReply
    /\ raw_text = PNone
    /\ parsed = PNone
    /\ fields = NoFields
    /\ outcome = "running"
    /\ result = NoFields

\* return _simple_fallback_rewrite(original)
ReturnFallback(why) ==
    /\ pc' = "done"
    /\ outcome' = why
    /\ result' = _simple_fallback_rewrite(original)

\* A variant of the POST step that catches nothing: the exception reaches the
\* caller.
call_ollama_post_uncaught ==
    /\ pc = "post"
    /\ \E r \in Replies :
         /\ reply' = r
         /\ IF r.error # "" \/ r.data.t # "dict"
            THEN /\ pc' = "raised"
                 /\ outcome' = "transport"
                 /\ UNCHANGED <<raw_text, result>>
            ELSE /\ raw_text' = (IF DictHas(r.data, ResponseKey)
                                 THEN DictGet(r.data, ResponseKey)
                                 ELSE PStr(<<>>))
                 /\ pc' = "extract"
                 /\ UNCHANGED <<outcome, result>>
    /\ UNCHANGED <<store, fn, arg, ret, original, hours, rules, parsed, fields>>

\* The try block of the POST: any exception in it, the AttributeError of
\* data.get on a body that is no dict included, returns the fallback.
call_ollama_post ==
    /\ pc = "post"
    /\ \E r \in Replies :
         /\ reply' = r
         /\ IF r.error # "" \/ r.data.t # "dict"
            THEN /\ ReturnFallback("transport")
                 /\ UNCHANGED raw_text
            ELSE /\ raw_text' = (IF DictHas(r.data, ResponseKey)
                                 THEN DictGet(r.data, ResponseKey)
                                 ELSE PStr(<<>>))
                 /\ pc' = "extract"
                 /\ UNCHANGED <<outcome, result>>
    /\ UNCHANGED <<store, fn, arg, ret, original, hours, rules, parsed, fields>>

\* parsed = _extract_json(raw_text), any exception returns the fallback.
call_ollama_extract ==
    /\ pc = "extract"
    /\ LET r == _extract_json(raw_text)
       IN  IF r.ok
           THEN /\ parsed' = r.v
                /\ pc' = "validate"
                /\ UNCHANGED <<outcome, result>>
           ELSE /\ ReturnFallback("invalid")
                /\ UNCHANGED parsed
    /\ UNCHANGED <<store, fn, arg, ret, original, hours, rules, reply, raw_text, fields>>

\* key not in parsed: a dict looks among its keys, a list among its items, a
\* str for a substring; any other value raises TypeError.
\* parsed[key] with a str key: only a dict has it.
RequiredKeys == <<KeyStandard, KeyClientCompliant, KeyAuditSafe>>

KeyIn(key, v) ==
    CASE v.t = "dict" -> DictHas(v, key)
      [] v.t = "list" -> \E i \in DOMAIN v.kids : v.kids[i] = PStr(key)
      [] v.t = "str"  -> IsSubstring(key, v.s)
      [] OTHER -> FALSE

\* The for loop over the required keys, from the i-th on:
\* "ok", "fallback" or "TypeError".
RECURSIVE ValidateFrom(_, _)
ValidateFrom(v, i) ==
    IF i > Len(RequiredKeys) THEN "ok"
    ELSE IF v.t \notin {"dict", "list", "str"} THEN "TypeError"
    ELSE IF ~KeyIn(RequiredKeys[i], v) THEN "fallback"
    ELSE IF v.t # "dict" THEN "TypeError"
    ELSE IF DictGet(v, RequiredKeys[i]).t # "str" THEN "fallback"
    ELSE ValidateFrom(v, i + 1)

Validate(v) == ValidateFrom(v, 1)

call_ollama_validate ==
    /\ pc = "validate"
    /\ LET verdict == Validate(parsed)
       IN  IF verdict = "ok"
           THEN /\ pc' = "fields"
                /\ UNCHANGED <<outcome, result>>
           ELSE IF verdict = "fallback"
           THEN ReturnFallback("schema")
           ELSE /\ pc' = "raised"
                /\ outcome' = "TypeError"
                /\ UNCHANGED result
    /\ UNCHANGED <<store, fn, arg, ret, original, hours, rules, reply, raw_text, parsed, fields>>

\* A variant of NotesOf: parsed.get("notes") or "", which also replaces a
\* null, a zero and an empty value by "".
NotesOf_or_default(v) ==
    IF DictHas(v, KeyNotes) /\ DictGet(v, KeyNotes) \notin {PNone, PInt(0), PStr(<<>>),
                                                            PList(<<>>), PDict(<<>>), PBool(FALSE)}
    THEN PyStr(DictGet(v, KeyNotes))
    ELSE <<>>

\* notes = parsed.get("notes", ""); str(notes) if it is no str
NotesOf(v) ==
    IF DictHas(v, KeyNotes) THEN PyStr(DictGet(v, KeyNotes)) ELSE <<>>

\* A variant of the step that strips the leading whitespace only.
call_ollama_fields_lstrip ==
    /\ pc = "fields"
    /\ fields' = RewriteResponse(LStrip(DictGet(parsed, KeyStandard).s),
                                 LStrip(DictGet(parsed, KeyClientCompliant).s),
                                 LStrip(DictGet(parsed, KeyAuditSafe).s),
                                 NotesOf(parsed))
    /\ pc' = "drift"
    /\ UNCHANGED <<store, fn, arg, ret, original, hours, rules, reply, raw_text, parsed, outcome, result>>

call_ollama_fields ==
    /\ pc = "fields"
    /\ fields' = RewriteResponse(Strip(DictGet(parsed, KeyStandard).s),
                                 Strip(DictGet(parsed, KeyClientCompliant).s),
                                 Strip(DictGet(parsed, KeyAuditSafe).s),
                                 NotesOf(parsed))
    /\ pc' = "drift"
    /\ UNCHANGED <<store, fn, arg, ret, original, hours, rules, reply, raw_text, parsed, outcome, result>>

\* A variant of the step that drift-checks all three rewrites.
call_ollama_drift_all_fields ==
    /\ pc = "drift"
    /\ IF \/ _too_much_drift(original, fields.standard)
          \/ _too_much_drift(original, fields.client_compliant)
          \/ _too_much_drift(original, fields.audit_safe)
       THEN ReturnFallback("drift")
       ELSE /\ pc' = "done"
            /\ outcome' = "accepted"
            /\ result' = RewriteResponse(fields.standard, fields.client_compliant,
                                         fields.audit_safe, Strip(fields.notes))
    /\ UNCHANGED <<store, fn, arg, ret, original, hours, rules, reply, raw_text, parsed, fields>>

\* A variant of the step that skips the drift check when the client has rules.
call_ollama_drift_rules_exempt ==
    /\ pc = "drift"
    /\ IF rules = "None" /\ _too_much_drift(original, fields.standard)
       THEN ReturnFallback("drift")
       ELSE /\ pc' = "done"
            /\ outcome' = "accepted"
            /\ result' = RewriteResponse(fields.standard, fields.client_compliant,
                                         fields.audit_safe, Strip(fields.notes))
    /\ UNCHANGED <<store, fn, arg, ret, original, hours, rules, reply, raw_text, parsed, fields>>

call_ollama_drift ==
    /\ pc = "drift"
    /\ IF _too_much_drift(original, fields.standard)
       THEN ReturnFallback("drift")
       ELSE /\ pc' = "done"
            /\ outcome' = "accepted"
            /\ result' = RewriteResponse(fields.standard, fields.client_compliant,
                                         fields.audit_safe, Strip(fields.notes))
    /\ UNCHANGED <<store, fn, arg, ret, original, hours, rules, reply, raw_text, parsed, fields>>

Next ==
    \/ call_ollama_post
    \/ call_ollama_extract
    \/ call_ollama_validate
    \/ call_ollama_fields
    \/ call_ollama_drift

Spec == Init /\ [][Next]_vars

(***************************************************************************)
(* app/validators.py                                                       *)
(***************************************************************************)
\* How a call ends: return value, or raise HTTPException(status_code, detail),
\* or raise of another exception.
Returned(v) == [kind |-> "returned", val |-> v]

Raised(exception) == [kind |-> "raised", val |-> exception]

HTTP_400_BAD_REQUEST == 400

HTTPException(status_code, detail) ==
    Raised([status_code |-> status_code, detail |-> detail])

\* The bool of a value in a condition: "not client_id".
Truthy(v) ==
    CASE v.t = "None" -> FALSE
      [] v.t = "str"  -> v.s # <<>>
      [] v.t \in {"int", "bool"} -> v.n # 0
      [] OTHER -> v.kids # <<>>

\* The class [A-Za-z0-9\-_] of the pattern: ASCII letters and digits only.
ClientIdChars == LowerSet \cup UpperSet \cup DigitSet \cup {"-", "_"}

\* re.match(r"^[A-Za-z0-9\-_]+$", text): $ also matches before one trailing
\* newline.
MatchesClientIdPattern(text) ==
    LET body == IF text # <<>> /\ text[Len(text)] = "\n"
                THEN SubSeq(text, 1, Len(text) - 1)
                ELSE text
    IN  body # <<>> /\ \A i \in DOMAIN body : body[i] \in ClientIdChars

MaxClientIdLength == 50

\* A variant of validate_client_id that rejects an id of the full length.
validate_client_id_exclusive(client_id) ==
    IF ~Truthy(client_id) \/ Strip(client_id.s) = <<>>
    THEN HTTPException(HTTP_400_BAD_REQUEST, "Client ID cannot be empty")
    ELSE LET id == Strip(client_id.s)
         IN  IF ~MatchesClientIdPattern(id)
             THEN HTTPException(HTTP_400_BAD_REQUEST,
                      "Client ID can only contain letters, numbers, hyphens, and underscores")
             ELSE IF Len(id) >= MaxClientIdLength
             THEN HTTPException(HTTP_400_BAD_REQUEST,
                      "Client ID must be 50 characters or less")
             ELSE Returned(id)

validate_client_id(client_id) ==
    IF ~Truthy(client_id) \/ Strip(client_id.s) = <<>>
    THEN HTTPException(HTTP_400_BAD_REQUEST, "Client ID cannot be empty")
    ELSE LET id == Strip(client_id.s)
         IN  IF ~MatchesClientIdPattern(id)
             THEN HTTPException(HTTP_400_BAD_REQUEST,
                      "Client ID can only contain letters, numbers, hyphens, and underscores")
             ELSE IF Len(id) > MaxClientIdLength
             THEN HTTPException(HTTP_400_BAD_REQUEST,
                      "Client ID must be 50 characters or less")
             ELSE Returned(id)

\* The character "\x00".
NullByte == "\\x00"

\* text.replace(c, "")
WithoutChar(text, c) == SelectSeq(text, LAMBDA x : x # c)

\* A variant of sanitize_text_input that strips before it measures.
sanitize_text_input_strip_first(text, max_length) ==
    IF text.t = "None" THEN Returned(<<>>)
    ELSE LET clean == Strip(WithoutChar(text.s, NullByte))
         IN  IF Len(clean) > max_length
             THEN HTTPException(HTTP_400_BAD_REQUEST, "Text input too long.")
             ELSE Returned(clean)

\* The detail names max_length; the model keeps its fixed part.
sanitize_text_input(text, max_length) ==
    IF text.t = "None" THEN Returned(<<>>)
    ELSE LET clean == WithoutChar(text.s, NullByte)
         IN  IF Len(clean) > max_length
             THEN HTTPException(HTTP_400_BAD_REQUEST, "Text input too long.")
             ELSE Returned(Strip(clean))

(***************************************************************************)
(* app/auth.py                                                             *)
(***************************************************************************)
\* settings.min_password_length
min_password_length == 8

\* re.search(r"[A-Z]", password), re.search(r"[a-z]", password) and
\* re.search(r"\d", password)
HasUpperCase(password) == \E i \in DOMAIN password : password[i] \in UpperSet

HasLowerCase(password) == \E i \in DOMAIN password : password[i] \in LowerSet

HasDigit(password) == \E i \in DOMAIN password : password[i] \in DigitSet

\* A variant of validate_password that looks for the lower-case letter first.
validate_password_lower_first(password) ==
    IF Len(password) < min_password_length
    THEN HTTPException(HTTP_400_BAD_REQUEST,
                       "Password must be at least 8 characters long")
    ELSE IF ~HasLowerCase(password)
    THEN HTTPException(HTTP_400_BAD_REQUEST,
                       "Password must contain at least one lowercase letter")
    ELSE IF ~HasUpperCase(password)
    THEN HTTPException(HTTP_400_BAD_REQUEST,
                       "Password must contain at least one uppercase letter")
    ELSE IF ~HasDigit(password)
    THEN HTTPException(HTTP_400_BAD_REQUEST,
                       "Password must contain at least one number")
    ELSE Returned(PNone)

validate_password(password) ==
    IF Len(password) < min_password_length
    THEN HTTPException(HTTP_400_BAD_REQUEST,
                       "Password must be at least 8 characters long")
    ELSE IF ~HasUpperCase(password)
    THEN HTTPException(HTTP_400_BAD_REQUEST,
                       "Password must contain at least one uppercase letter")
    ELSE IF ~HasLowerCase(password)
    THEN HTTPException(HTTP_400_BAD_REQUEST,
                       "Password must contain at least one lowercase letter")
    ELSE IF ~HasDigit(password)
    THEN HTTPException(HTTP_400_BAD_REQUEST,
                       "Password must contain at least one number")
    ELSE Returned(PNone)

(***************************************************************************)
(* One call of a helper                                                    *)
(***************************************************************************)
MaxTextPieces == 3     \* pieces of a text given to _tokenize and the fallback
MaxJsonPieces == 4     \* pieces of a text given to _extract_json
MaxOverLength == 2     \* characters of a client id beyond the 50 allowed
MaxSanitizeLen == 4    \* characters of a text given to sanitize_text_input
MaxPasswordOver == 2   \* characters of a password beyond the 8 required

TextPieces == {
    <<"T","h","e">>, <<"r","e",":">>, <<"F","A","R","T","S">>, <<"w","_","1">>,
    <<"ß">>, <<" ">>, <<".">>, <<"-">>, <<"\n">>, <<"O","f"," ","b","2">> }

Texts ==
    Originals \cup StandardTexts
        \cup {Concat(ps) : ps \in SeqsUpTo(TextPieces, MaxTextPieces)}

JsonPieces == {
    <<"{">>, <<"}">>, <<"[">>, <<"]">>, <<"\"","a","\"",":","1">>,
    <<"1">>, <<"x">>, <<" ">> }

JsonTexts ==
    RawTexts \cup {Concat(ps) : ps \in SeqsUpTo(JsonPieces, MaxJsonPieces)}

\* n times the character c
Repeat(c, n) == [i \in 1..n |-> c]

ClientIdPads == { <<>>, <<" ">>, <<"\n", "\t">> }

ClientIdAffixes ==
    { <<>>, <<"-">>, <<"_">>, <<"7">>, <<"z">>, <<"@">>, <<"ß">>, <<" ">>, <<".">>, <<"\n">> }

ClientIds ==
    {PStr(l \o a \o Repeat("A", n) \o b \o r) :
        l \in ClientIdPads, r \in ClientIdPads,
        a \in {<<>>, <<"@">>, <<"-">>}, b \in ClientIdAffixes,
        n \in 0..(MaxClientIdLength + MaxOverLength)}
      \cup {PNone}

SanitizeChars == {"a", " ", "\n", NullByte}

SanitizeArgs ==
    {[text |-> t, max_length |-> m] :
        t \in {PStr(s) : s \in SeqsUpTo(SanitizeChars, MaxSanitizeLen)} \cup {PNone},
        m \in 0..MaxSanitizeLen}

\* Passwords: some of an upper-case letter, a lower-case letter and a digit,
\* before or after a run of one character that is none of the three.
PasswordFillers == {"@", "ß", " "}

Passwords ==
    {PStr(IF front THEN Concat(cs) \o Repeat(c, n) ELSE Repeat(c, n) \o Concat(cs)) :
        cs \in SeqsUpTo({<<"Q">>, <<"q">>, <<"7">>}, 3),
        c \in PasswordFillers,
        n \in 0..(min_password_length + MaxPasswordOver),
        front \in BOOLEAN}

\* An original with the standard rewrite of its fallback.
FallbackPairs ==
    {[original |-> t, rewritten |-> _simple_fallback_rewrite(t).standard] : t \in Texts}

Functions ==
    {"_tokenize", "_extract_json", "_simple_fallback_rewrite",
     "validate_client_id", "sanitize_text_input", "validate_password",
     "_too_much_drift"}

Arguments(f) ==
    CASE f = "_tokenize" -> {PStr(t) : t \in Texts}
      [] f = "_simple_fallback_rewrite" -> {PStr(t) : t \in Texts}
      [] f = "_extract_json" -> {PStr(t) : t \in JsonTexts}
      [] f = "validate_client_id" -> ClientIds
      [] f = "sanitize_text_input" -> SanitizeArgs
      [] f = "validate_password" -> Passwords
      [] f = "_too_much_drift" -> FallbackPairs

\* The variables of call_ollama, which no helper call touches.
locals == <<pc, original, hours, rules, reply, raw_text, parsed, fields, outcome, result>>

CallInit ==
    /\ NoStore
    /\ fn \in Functions
    /\ arg \in Arguments(fn)
    /\ ret = Pending
    /\ pc = "idle"
    /\ original = <<>>
    /\ hours = 1
    /\ rules = "None"
    /\ reply = NoReply
    /\ raw_text = PNone
    /\ parsed = PNone
    /\ fields = NoFields
    /\ outcome = "idle"
    /\ result = NoFields

call_tokenize ==
    /\ fn = "_tokenize"
    /\ ret = Pending
    /\ ret' = Returned(_tokenize(arg.s))
    /\ UNCHANGED <<fn, arg, locals, store>>

call_simple_fallback_rewrite ==
    /\ fn = "_simple_fallback_rewrite"
    /\ ret = Pending
    /\ ret' = Returned(_simple_fallback_rewrite(arg.s))
    /\ UNCHANGED <<fn, arg, locals, store>>

\* _extract_json raises ValueError (json.JSONDecodeError is one).
call_extract_json ==
    /\ fn = "_extract_json"
    /\ ret = Pending
    /\ LET r == _extract_json(arg)
       IN  ret' = IF r.ok THEN Returned(r.v) ELSE Raised("ValueError")
    /\ UNCHANGED <<fn, arg, locals, store>>

call_validate_client_id ==
    /\ fn = "validate_client_id"
    /\ ret = Pending
    /\ ret' = validate_client_id(arg)
    /\ UNCHANGED <<fn, arg, locals, store>>

call_sanitize_text_input ==
    /\ fn = "sanitize_text_input"
    /\ ret = Pending
    /\ ret' = sanitize_text_input(arg.text, arg.max_length)
    /\ UNCHANGED <<fn, arg, locals, store>>

call_validate_password ==
    /\ fn = "validate_password"
    /\ ret = Pending
    /\ ret' = validate_password(arg.s)
    /\ UNCHANGED <<fn, arg, locals, store>>

\* _too_much_drift(original, _simple_fallback_rewrite(original).standard)
call_too_much_drift ==
    /\ fn = "_too_much_drift"
    /\ ret = Pending
    /\ ret' = Returned(_too_much_drift(arg.original, arg.rewritten))
    /\ UNCHANGED <<fn, arg, locals, store>>

CallNext ==
    \/ call_tokenize
    \/ call_simple_fallback_rewrite
    \/ call_extract_json
    \/ call_validate_client_id
    \/ call_sanitize_text_input
    \/ call_validate_password
    \/ call_too_much_drift

CallSpec == CallInit /\ [][CallNext]_vars

(***************************************************************************)
(* app/routers/rewrites.py: rewrite and rewrite_and_save                   *)
(*                                                                         *)
(* Each request runs its handler in steps: up to the await of call_ollama, *)
(* the await, and then one step per db.commit().  Requests of other        *)
(* workers, the clock and a failure of the request come between the steps. *)
(***************************************************************************)
MaxClock == 1          \* the milliseconds the clock can advance

Requests == {1, 2}

HTTP_404_NOT_FOUND == 404

\* The rows of the clients table (seed_demo_clients_and_admin).
DemoClientIds == {"C001", "C002", "C003"}

\* payload.original and payload.client_id of the requests.
SaveOriginals == { <<>>, <<" ", "\n">>, <<"w","1">> }

SaveClientIds == {"C001", "C999"}

\* now_ts before it is assigned.
NoTimestamp == -1

\* What a request starts as.
NewRequests ==
    {[handler |-> h, original |-> o, client_id |-> c, pc |-> "start",
      status_code |-> 0, llm_called |-> FALSE, rewrite |-> NoFields,
      now_ts |-> NoTimestamp, committed |-> {}] :
        h \in {"rewrite_and_save"}, o \in SaveOriginals, c \in SaveClientIds}
      \cup
    {[handler |-> "rewrite", original |-> o, client_id |-> "", pc |-> "start",
      status_code |-> 0, llm_called |-> FALSE, rewrite |-> NoFields,
      now_ts |-> NoTimestamp, committed |-> {}] : o \in SaveOriginals}

\* What call_ollama returns to a handler.
RewritesOf(orig) ==
    { _simple_fallback_rewrite(orig),
      RewriteResponse(<<"R","e","v","i","e","w","e","d",".">>, <<"R","e","v","i","e","w","e","d",".">>,
                      <<"R","e","v","i","e","w","e","d",".">>, <<>>) }

SaveInit ==
    /\ db = [clients |-> DemoClientIds, time_entries |-> {}, rewrites |-> {},
             audit_events |-> {}]
    /\ reqs \in [Requests -> NewRequests]
    /\ now = 0
    /\ fn = "none"
    /\ arg = <<>>
    /\ ret = Pending
    /\ pc = "idle"
    /\ original = <<>>
    /\ hours = 1
    /\ rules = "None"
    /\ reply = NoReply
    /\ raw_text = PNone
    /\ parsed = PNone
    /\ fields = NoFields
    /\ outcome = "idle"
    /\ result = NoFields

\* The variables of the helper calls and of call_ollama.
calls == <<fn, arg, ret, locals>>

\* The request ends with a response of this status.
Respond(r, status_code) ==
    reqs' = [reqs EXCEPT ![r].pc = "done", ![r].status_code = status_code]

\* f"TE-{now_ts}", f"RW-{now_ts}", f"AE-{now_ts}"
RowId(prefix, now_ts) == <<prefix, now_ts>>

Ids(rows) == {row.id : row \in rows}

\* rewrite: the check of payload.original
rewrite_check(r) ==
    /\ reqs[r].handler = "rewrite"
    /\ reqs[r].pc = "start"
    /\ IF Strip(reqs[r].original) = <<>>
       THEN Respond(r, HTTP_400_BAD_REQUEST)
       ELSE reqs' = [reqs EXCEPT ![r].pc = "llm"]
    /\ UNCHANGED <<db, now, calls>>

\* rewrite: await call_ollama(...) and return; an exception of call_ollama
\* becomes the response 500.
rewrite_llm(r) ==
    /\ reqs[r].handler = "rewrite"
    /\ reqs[r].pc = "llm"
    /\ \/ \E rw \in RewritesOf(reqs[r].original) :
              reqs' = [reqs EXCEPT ![r].pc = "done", ![r].status_code = 200,
                                   ![r].llm_called = TRUE, ![r].rewrite = rw]
       \/ reqs' = [reqs EXCEPT ![r].pc = "done", ![r].status_code = 500,
                               ![r].llm_called = TRUE]
    /\ UNCHANGED <<db, now, calls>>

\* A variant of save_check without the check of payload.original.
save_check_original_unchecked(r) ==
    /\ reqs[r].handler = "rewrite_and_save"
    /\ reqs[r].pc = "start"
    /\ IF reqs[r].client_id \notin db.clients
       THEN Respond(r, HTTP_404_NOT_FOUND)
       ELSE reqs' = [reqs EXCEPT ![r].pc = "llm"]
    /\ UNCHANGED <<db, now, calls>>

\* rewrite_and_save: the check of payload.original, the client and its rules
save_check(r) ==
    /\ reqs[r].handler = "rewrite_and_save"
    /\ reqs[r].pc = "start"
    /\ IF Strip(reqs[r].original) = <<>>
       THEN Respond(r, HTTP_400_BAD_REQUEST)
       ELSE IF reqs[r].client_id \notin db.clients
       THEN Respond(r, HTTP_404_NOT_FOUND)
       ELSE reqs' = [reqs EXCEPT ![r].pc = "llm"]
    /\ UNCHANGED <<db, now, calls>>

\* rewrite_and_save: await call_ollama(...)
save_llm(r) ==
    /\ reqs[r].handler = "rewrite_and_save"
    /\ reqs[r].pc = "llm"
    /\ \/ \E rw \in RewritesOf(reqs[r].original) :
              reqs' = [reqs EXCEPT ![r].pc = "time_entry", ![r].llm_called = TRUE,
                                   ![r].rewrite = rw]
       \/ reqs' = [reqs EXCEPT ![r].pc = "done", ![r].status_code = 500,
                               ![r].llm_called = TRUE]
    /\ UNCHANGED <<db, now, calls>>

\* rewrite_and_save: now_ts and the three ids, then the TimeEntry and its
\* commit.  A primary key already in the table makes the commit raise
\* IntegrityError: the response is 500.
save_time_entry(r) ==
    /\ reqs[r].handler = "rewrite_and_save"
    /\ reqs[r].pc = "time_entry"
    /\ IF RowId("TE", now) \in Ids(db.time_entries)
       THEN /\ reqs' = [reqs EXCEPT ![r].pc = "done", ![r].status_code = 500,
                                    ![r].now_ts = now]
            /\ UNCHANGED db
       ELSE /\ db' = [db EXCEPT !.time_entries = @ \cup
                         {[id |-> RowId("TE", now), client_id |-> reqs[r].client_id,
                           original |-> reqs[r].original]}]
            /\ reqs' = [reqs EXCEPT ![r].pc = "rewrite", ![r].now_ts = now,
                                    ![r].committed = @ \cup {"TimeEntry"}]
    /\ UNCHANGED <<now, calls>>

\* rewrite_and_save: the RewriteRecord and its commit
save_rewrite(r) ==
    /\ reqs[r].handler = "rewrite_and_save"
    /\ reqs[r].pc = "rewrite"
    /\ IF RowId("RW", reqs[r].now_ts) \in Ids(db.rewrites)
       THEN /\ Respond(r, 500)
            /\ UNCHANGED db
       ELSE /\ db' = [db EXCEPT !.rewrites = @ \cup
                         {[id |-> RowId("RW", reqs[r].now_ts),
                           time_entry_id |-> RowId("TE", reqs[r].now_ts),
                           standard |-> reqs[r].rewrite.standard]}]
            /\ reqs' = [reqs EXCEPT ![r].pc = "audit",
                                    ![r].committed = @ \cup {"RewriteRecord"}]
    /\ UNCHANGED <<now, calls>>

\* rewrite_and_save: the AuditEvent, its commit and the response
save_audit(r) ==
    /\ reqs[r].handler = "rewrite_and_save"
    /\ reqs[r].pc = "audit"
    /\ IF RowId("AE", reqs[r].now_ts) \in Ids(db.audit_events)
       THEN /\ Respond(r, 500)
            /\ UNCHANGED db
       ELSE /\ db' = [db EXCEPT !.audit_events = @ \cup
                         {[id |-> RowId("AE", reqs[r].now_ts),
                           time_entry_id |-> RowId("TE", reqs[r].now_ts),
                           rewrite_id |-> RowId("RW", reqs[r].now_ts),
                           client_id |-> reqs[r].client_id]}]
            /\ reqs' = [reqs EXCEPT ![r].pc = "done", ![r].status_code = 200,
                                    ![r].committed = @ \cup {"AuditEvent"}]
    /\ UNCHANGED <<now, calls>>

\* rewrite_and_save ends between two of its commits: the next commit raises
\* (the database is locked or gone) or the worker is stopped.  What is
\* committed stays.
save_interrupted(r) ==
    /\ reqs[r].handler = "rewrite_and_save"
    /\ reqs[r].pc \in {"rewrite", "audit"}
    /\ Respond(r, 500)
    /\ UNCHANGED <<db, now, calls>>

\* A millisecond passes.
tick ==
    /\ now < MaxClock
    /\ now' = now + 1
    /\ UNCHANGED <<db, reqs, calls>>

SaveNext ==
    \/ \E r \in Requests : rewrite_check(r)
    \/ \E r \in Requests : rewrite_llm(r)
    \/ \E r \in Requests : save_check(r)
    \/ \E r \in Requests : save_llm(r)
    \/ \E r \in Requests : save_time_entry(r)
    \/ \E r \in Requests : save_rewrite(r)
    \/ \E r \in Requests : save_audit(r)
    \/ \E r \in Requests : save_interrupted(r)
    \/ tick

SaveSpec == SaveInit /\ [][SaveNext]_vars

(***************************************************************************)
(* The admin API of V2--time_rewrite_app/app/routers/admin.py: users and   *)
(* their client permissions.  Every handler is one transaction; a call    *)
(* that ends with a 4xx response has written nothing.                      *)
(*                                                                         *)
(* db.users is the set of rows of the table users.  db.permissions gives,  *)
(* for each (user_id, client_id), how many rows of user_client_permissions *)
(* hold that pair: the table has no unique constraint on the pair and no   *)
(* handler reads the integer primary key of a row.                         *)
(***************************************************************************)
MaxPermissions == 3
MaxClientIdsListed == 2

UserIds == {1, 2}
Usernames == {"admin", "demo", "root"}
Roles == {"admin", "user"}
ListedClientIds == {"C001", "C002", "C999"}
NewPasswords == {<<"a","b","1">>, <<"S","e","c","r","e","t","1">>}

\* A value of Optional[...]: {} is None, {v} is the value v.
Optional(S) == {{}} \cup {{v} : v \in S}

TheValue(opt) == CHOOSE v \in opt : TRUE

\* password_hash=get_password_hash(...): the hash stands for its password.
PasswordHashOf(password) == <<"hash">> \o password

\* class User
User(id, username, password_hash, role, is_active) ==
    [id |-> id, username |-> username, password_hash |-> password_hash,
     role |-> role, is_active |-> is_active]

\* seed_demo_clients_and_admin of the V2 application: admin/admin123 and
\* demo/demo123, the three demo clients, no permission.
AdminInit ==
    /\ db = [clients |-> DemoClientIds,
             users |-> {User(1, "admin", PasswordHashOf(<<"a","d","m","i","n","1","2","3">>),
                             "admin", TRUE),
                        User(2, "demo", PasswordHashOf(<<"d","e","m","o","1","2","3">>),
                             "user", TRUE)},
             permissions |-> [p \in UserIds \X DemoClientIds |-> 0]]
    /\ reqs = <<>>
    /\ now = 0
    /\ fn = "none"
    /\ arg = <<>>
    /\ ret = Pending
    /\ pc = "idle"
    /\ original = <<>>
    /\ hours = 1
    /\ rules = "None"
    /\ reply = NoReply
    /\ raw_text = PNone
    /\ parsed = PNone
    /\ fields = NoFields
    /\ outcome = "idle"
    /\ result = NoFields

\* db.query(User).filter(User.id == user_id).first(), as a set of 0 or 1 row
UsersWithId(user_id) == {u \in db.users : u.id = user_id}

UsersNamed(username) == {u \in db.users : u.username = username}

\* require_admin over get_current_user: the caller is an active user whose
\* role is admin.
require_admin == \E caller \in db.users : caller.is_active /\ caller.role = "admin"

\* check_client_access(user, client_id, db)
check_client_access(user, client_id) ==
    IF user.role = "admin"
    THEN TRUE
    ELSE /\ <<user.id, client_id>> \in DOMAIN db.permissions
         /\ db.permissions[<<user.id, client_id>>] > 0

RECURSIVE SumOver(_, _)
SumOver(f, S) ==
    IF S = {} THEN 0
    ELSE LET x == CHOOSE y \in S : TRUE IN f[x] + SumOver(f, S \ {x})

\* The number of rows of user_client_permissions.
PermissionCount(permissions) == SumOver(permissions, DOMAIN permissions)

\* POST /users
create_user(username, password, role) ==
    /\ require_admin
    /\ IF UsersNamed(username) # {}
       THEN UNCHANGED db   \* 400
       ELSE \E id \in UserIds \ {u.id : u \in db.users} :
                /\ db' = [db EXCEPT !.users =
                              @ \cup {User(id, username, PasswordHashOf(password), role, TRUE)}]
    /\ UNCHANGED <<reqs, now, calls>>

\* db.delete(user): the relationship client_permissions cascades.
WithoutUser(user) ==
    [db EXCEPT !.users = @ \ {user},
               !.permissions = [p \in DOMAIN @ |-> IF p[1] = user.id THEN 0 ELSE @[p]]]

\* DELETE /users/{user_id}.  delete_user_endpoint, registered later for the
\* same method and path, has the same checks and the same effect.
delete_user(user_id) ==
    /\ require_admin
    /\ IF UsersWithId(user_id) = {}
       THEN UNCHANGED db   \* 404
       ELSE LET user == TheValue(UsersWithId(user_id)) IN
            IF user.username = "admin"
            THEN UNCHANGED db   \* 400
            ELSE /\ db' = WithoutUser(user)
    /\ UNCHANGED <<reqs, now, calls>>

\* PUT /users/{user_id}
update_user(user_id, payload) ==
    /\ require_admin
    /\ IF UsersWithId(user_id) = {}
       THEN UNCHANGED db   \* 404
       ELSE LET user == TheValue(UsersWithId(user_id)) IN
            IF /\ user.username = "admin"
               /\ \/ payload.role # {} /\ payload.role # {"admin"}
                  \/ payload.is_active = {FALSE}
            THEN UNCHANGED db   \* 400
            ELSE IF /\ payload.username # {}
                    /\ \E u \in UsersNamed(TheValue(payload.username)) : u.id # user_id
            THEN UNCHANGED db   \* 400
            ELSE LET updated ==
                         [user EXCEPT
                             !.username = IF payload.username # {}
                                          THEN TheValue(payload.username) ELSE @,
                             !.role = IF payload.role # {} THEN TheValue(payload.role) ELSE @,
                             !.is_active = IF payload.is_active # {}
                                           THEN TheValue(payload.is_active) ELSE @]
                 IN /\ db' = [db EXCEPT !.users = (@ \ {user}) \cup {updated}]
    /\ UNCHANGED <<reqs, now, calls>>

\* POST /users/{user_id}/reset-password
reset_user_password(user_id, new_password) ==
    /\ require_admin
    /\ IF UsersWithId(user_id) = {}
       THEN UNCHANGED db   \* 404
       ELSE LET user == TheValue(UsersWithId(user_id)) IN
            IF Len(new_password) < 6
            THEN UNCHANGED db   \* 400
            ELSE /\ db' = [db EXCEPT !.users =
                              (@ \ {user}) \cup
                              {[user EXCEPT !.password_hash = PasswordHashOf(new_password)]}]
    /\ UNCHANGED <<reqs, now, calls>>

\* POST /user-permissions
assign_client_permission(user_id, client_id) ==
    /\ require_admin
    /\ IF UsersWithId(user_id) = {} \/ client_id \notin db.clients
       THEN UNCHANGED db   \* 404
       ELSE IF db.permissions[<<user_id, client_id>>] > 0
       THEN UNCHANGED db   \* "already_exists"
       ELSE /\ PermissionCount(db.permissions) < MaxPermissions
            /\ db' = [db EXCEPT !.permissions[<<user_id, client_id>>] = 1]
    /\ UNCHANGED <<reqs, now, calls>>

\* DELETE /user-permissions/{user_id}/{client_id}: .first() is one row of
\* the pair, db.delete(perm) deletes that row.
revoke_client_permission(user_id, client_id) ==
    /\ require_admin
    /\ IF \/ <<user_id, client_id>> \notin DOMAIN db.permissions
          \/ db.permissions[<<user_id, client_id>>] = 0
       THEN UNCHANGED db   \* 404
       ELSE /\ db' = [db EXCEPT !.permissions[<<user_id, client_id>>] = @ - 1]
    /\ UNCHANGED <<reqs, now, calls>>

\* The loop of set_user_permissions: one row per listed id of an existing
\* client, a repeated id once more each time.
RECURSIVE AddPermissions(_, _, _, _)
AddPermissions(permissions, clients, user_id, client_ids) ==
    IF client_ids = <<>>
    THEN permissions
    ELSE LET client_id == Head(client_ids) IN
         AddPermissions(IF client_id \in clients
                        THEN [permissions EXCEPT ![<<user_id, client_id>>] = @ + 1]
                        ELSE permissions,
                        clients, user_id, Tail(client_ids))

\* POST /user-permissions/{user_id}/set-all
set_user_permissions(user_id, client_ids) ==
    /\ require_admin
    /\ IF UsersWithId(user_id) = {}
       THEN UNCHANGED db   \* 404
       ELSE LET deleted == [p \in DOMAIN db.permissions |->
                               IF p[1] = user_id THEN 0 ELSE db.permissions[p]]
                added == AddPermissions(deleted, db.clients, user_id, client_ids)
            IN /\ PermissionCount(added) <= MaxPermissions
               /\ db' = [db EXCEPT !.permissions = added]
    /\ UNCHANGED <<reqs, now, calls>>

UserUpdates ==
    [username : Optional(Usernames), role : Optional(Roles), is_active : Optional(BOOLEAN)]

AdminNext ==
    \/ \E username \in Usernames, password \in NewPasswords, role \in Roles :
           create_user(username, password, role)
    \/ \E user_id \in UserIds : delete_user(user_id)
    \/ \E user_id \in UserIds, payload \in UserUpdates : update_user(user_id, payload)
    \/ \E user_id \in UserIds, new_password \in NewPasswords :
           reset_user_password(user_id, new_password)
    \/ \E user_id \in UserIds, client_id \in ListedClientIds :
           assign_client_permission(user_id, client_id)
    \/ \E user_id \in UserIds, client_id \in ListedClientIds :
           revoke_client_permission(user_id, client_id)
    \/ \E user_id \in UserIds, client_ids \in SeqsUpTo(ListedClientIds, MaxClientIdsListed) :
           set_user_permissions(user_id, client_ids)

AdminSpec == AdminInit /\ [][AdminNext]_vars

(***************************************************************************)
(* restore_version of V2--time_rewrite_app/app/routers/history.py.  The    *)
(* handlers run in a thread pool, so requests interleave between their     *)
(* queries.  The database is SQLite (config.py, database_url): a query     *)
(* reads the committed rows, the first write of a transaction takes the    *)
(* write lock of the database, and what the transaction wrote is seen by   *)
(* the others when it commits.  db.write_lock is the request that holds    *)
(* the lock, 0 for none.                                                   *)
(***************************************************************************)
MaxVersions == 4

HTTP_403_FORBIDDEN == 403

TimeEntryIds == {"TE1", "TE2"}
RequestedTimeEntryIds == TimeEntryIds \cup {"TE9"}
VersionIds == 1..MaxVersions

\* class RewriteVersion
RewriteVersion(id, time_entry_id, version_number, standard, client_compliant, audit_safe, is_current) ==
    [id |-> id, time_entry_id |-> time_entry_id, version_number |-> version_number,
     standard |-> standard, client_compliant |-> client_compliant,
     audit_safe |-> audit_safe, is_current |-> is_current]

NoVersion == RewriteVersion(0, "", 0, "", "", "", FALSE)

\* A request that has not arrived.
NoRequest ==
    [pc |-> "idle", user |-> "", time_entry_id |-> "", version_id |-> 0,
     version |-> NoVersion, max_version |-> 0, new_id |-> 0, status_code |-> 0]

\* The users of the seed, demo permitted for the client C001; two time
\* entries as import_csv leaves them, each with its version 1, current.
HistoryInit ==
    /\ db = [clients |-> DemoClientIds,
             users |-> {User(1, "admin", PasswordHashOf(<<"a","d","m","i","n","1","2","3">>),
                             "admin", TRUE),
                        User(2, "demo", PasswordHashOf(<<"d","e","m","o","1","2","3">>),
                             "user", TRUE)},
             permissions |-> [p \in UserIds \X DemoClientIds |->
                                 IF p = <<2, "C001">> THEN 1 ELSE 0],
             time_entries |-> {[id |-> "TE1", client_id |-> "C001"],
                               [id |-> "TE2", client_id |-> "C002"]},
             versions |-> {RewriteVersion(1, "TE1", 1, "standard 1", "client_compliant 1",
                                          "audit_safe 1", TRUE),
                           RewriteVersion(2, "TE2", 1, "standard 2", "client_compliant 2",
                                          "audit_safe 2", TRUE)},
             write_lock |-> 0]
    /\ reqs = [r \in Requests |-> NoRequest]
    /\ now = 0
    /\ fn = "none"
    /\ arg = <<>>
    /\ ret = Pending
    /\ pc = "idle"
    /\ original = <<>>
    /\ hours = 1
    /\ rules = "None"
    /\ reply = NoReply
    /\ raw_text = PNone
    /\ parsed = PNone
    /\ fields = NoFields
    /\ outcome = "idle"
    /\ result = NoFields

\* The rows of rewrite_versions of a time entry.
VersionsOf(versions, time_entry_id) == {v \in versions : v.time_entry_id = time_entry_id}

\* The requests between their arrival and their response.
InFlight == {r \in Requests : reqs[r].pc \notin {"idle", "done"}}

\* A request arrives: POST /versions/{time_entry_id}/restore/{version_id}
\* of an authenticated, active user.
restore_version_arrive(r) ==
    /\ reqs[r].pc \in {"idle", "done"}
    /\ Cardinality(db.versions) + Cardinality(InFlight) < MaxVersions
    /\ \E user \in db.users, time_entry_id \in RequestedTimeEntryIds, version_id \in VersionIds :
           /\ user.is_active
           /\ reqs' = [reqs EXCEPT ![r] =
                          [NoRequest EXCEPT !.pc = "lookup", !.user = user.username,
                                            !.time_entry_id = time_entry_id,
                                            !.version_id = version_id]]
    /\ UNCHANGED <<db, now, calls>>

\* The time entry, the access check and the version to restore.
restore_version_lookup(r) ==
    /\ reqs[r].pc = "lookup"
    /\ LET time_entry == {t \in db.time_entries : t.id = reqs[r].time_entry_id}
           current_user == TheValue(UsersNamed(reqs[r].user))
           version == {v \in db.versions : /\ v.id = reqs[r].version_id
                                            /\ v.time_entry_id = reqs[r].time_entry_id}
       IN IF time_entry = {}
          THEN Respond(r, HTTP_404_NOT_FOUND)
          ELSE IF ~check_client_access(current_user, TheValue(time_entry).client_id)
          THEN Respond(r, HTTP_403_FORBIDDEN)
          ELSE IF version = {}
          THEN Respond(r, HTTP_404_NOT_FOUND)
          ELSE reqs' = [reqs EXCEPT ![r].pc = "count", ![r].version = TheValue(version)]
    /\ UNCHANGED <<db, now, calls>>

\* max_version = db.query(RewriteVersion).filter(...).count()
restore_version_count(r) ==
    /\ reqs[r].pc = "count"
    /\ reqs' = [reqs EXCEPT ![r].pc = "update",
                            ![r].max_version =
                                Cardinality(VersionsOf(db.versions, reqs[r].time_entry_id))]
    /\ UNCHANGED <<db, now, calls>>

\* db.add(new_version) and the UPDATE of is_current: the first write of the
\* transaction, which waits for the write lock.
restore_version_update(r) ==
    /\ reqs[r].pc = "update"
    /\ db.write_lock = 0
    /\ db' = [db EXCEPT !.write_lock = r]
    /\ reqs' = [reqs EXCEPT ![r].pc = "commit"]
    /\ UNCHANGED <<now, calls>>

\* The wait for the write lock times out: OperationalError, database is
\* locked.
restore_version_locked(r) ==
    /\ reqs[r].pc = "update"
    /\ db.write_lock \notin {0, r}
    /\ Respond(r, 500)
    /\ UNCHANGED <<db, now, calls>>

\* str(uuid.uuid4()): an id no row has.
NewVersionId(versions) == Cardinality(versions) + 1

\* restore_version whose UPDATE has no filter on the time entry.
restore_version_commit_every_entry(r) ==
    /\ reqs[r].pc = "commit"
    /\ db.write_lock = r
    /\ LET version == reqs[r].version
           new_version ==
               RewriteVersion(NewVersionId(db.versions), reqs[r].time_entry_id,
                              reqs[r].max_version + 1, version.standard,
                              version.client_compliant, version.audit_safe, TRUE)
       IN /\ db' = [db EXCEPT
                       !.versions = {[v EXCEPT !.is_current = FALSE] : v \in @}
                                    \cup {new_version},
                       !.write_lock = 0]
          /\ reqs' = [reqs EXCEPT ![r].pc = "done", ![r].status_code = 200,
                                  ![r].new_id = new_version.id]
    /\ UNCHANGED <<now, calls>>

\* The UPDATE of is_current, new_version.is_current = True and db.commit().
restore_version_commit(r) ==
    /\ reqs[r].pc = "commit"
    /\ db.write_lock = r
    /\ LET version == reqs[r].version
           new_version ==
               RewriteVersion(NewVersionId(db.versions), reqs[r].time_entry_id,
                              reqs[r].max_version + 1, version.standard,
                              version.client_compliant, version.audit_safe, TRUE)
       IN /\ db' = [db EXCEPT
                       !.versions = {IF v.time_entry_id = reqs[r].time_entry_id
                                     THEN [v EXCEPT !.is_current = FALSE]
                                     ELSE v : v \in @}
                                    \cup {new_version},
                       !.write_lock = 0]
          /\ reqs' = [reqs EXCEPT ![r].pc = "done", ![r].status_code = 200,
                                  ![r].new_id = new_version.id]
    /\ UNCHANGED <<now, calls>>

HistoryNext ==
    \/ \E r \in Requests : restore_version_arrive(r)
    \/ \E r \in Requests : restore_version_lookup(r)
    \/ \E r \in Requests : restore_version_count(r)
    \/ \E r \in Requests : restore_version_update(r)
    \/ \E r \in Requests : restore_version_locked(r)
    \/ \E r \in Requests : restore_version_commit(r)

HistorySpec == HistoryInit /\ [][HistoryNext]_vars

(***************************************************************************)
(* The start of the application, main.py: create_all and                   *)
(* seed_demo_clients_and_admin of app/models.py.  The database the start   *)
(* finds is any of a bounded set, the empty one included; reqs holds the   *)
(* position of the run, the number of starts so far and the database the   *)
(* run found; ret is how the run ended.                                    *)
(***************************************************************************)
MaxStarts == 2

\* get_password_hash(password): validate_password, then pwd_context.hash
get_password_hash(password) ==
    LET validated == validate_password(password) IN
    IF validated.kind = "returned"
    THEN Returned(PasswordHashOf(password))
    ELSE validated

\* The rows a database may hold when the application starts.
SeedClientIds == DemoClientIds \cup {"C900"}
SeedUsers ==
    {User(1, "admin", PasswordHashOf(<<"S","e","c","r","e","t","1","2">>), "admin", TRUE),
     User(2, "demo", PasswordHashOf(<<"S","e","c","r","e","t","1","2">>), "user", FALSE),
     User(3, "root", PasswordHashOf(<<"S","e","c","r","e","t","1","2">>), "admin", TRUE)}

SeedInit ==
    /\ db \in [clients : SUBSET SeedClientIds, users : SUBSET SeedUsers]
    /\ reqs = [pc |-> "clients", starts |-> 1, found |-> db]
    /\ now = 0
    /\ fn = "seed_demo_clients_and_admin"
    /\ arg = <<>>
    /\ ret = Pending
    /\ pc = "idle"
    /\ original = <<>>
    /\ hours = 1
    /\ rules = "None"
    /\ reply = NoReply
    /\ raw_text = PNone
    /\ parsed = PNone
    /\ fields = NoFields
    /\ outcome = "idle"
    /\ result = NoFields

\* if db.query(Client).count() == 0: the three demo clients, db.commit()
seed_clients ==
    /\ reqs.pc = "clients"
    /\ db' = IF db.clients = {} THEN [db EXCEPT !.clients = DemoClientIds] ELSE db
    /\ reqs' = [reqs EXCEPT !.pc = "users"]
    /\ UNCHANGED <<now, calls>>

\* if db.query(User).count() == 0: admin/admin123 and demo/demo123,
\* db.commit(); an exception of get_password_hash leaves the function
\* through finally: db.close().
seed_users ==
    /\ reqs.pc = "users"
    /\ LET admin_hash == get_password_hash(<<"a","d","m","i","n","1","2","3">>)
           demo_hash == get_password_hash(<<"d","e","m","o","1","2","3">>)
       IN IF db.users # {}
          THEN /\ ret' = Returned(PNone)
               /\ UNCHANGED db
          ELSE IF admin_hash.kind # "returned"
          THEN /\ ret' = admin_hash
               /\ UNCHANGED db
          ELSE IF demo_hash.kind # "returned"
          THEN /\ ret' = demo_hash
               /\ UNCHANGED db
          ELSE /\ ret' = Returned(PNone)
               /\ db' = [db EXCEPT !.users =
                            {User(1, "admin", admin_hash.val, "admin", TRUE),
                             User(2, "demo", demo_hash.val, "user", TRUE)}]
    /\ reqs' = [reqs EXCEPT !.pc = "done"]
    /\ UNCHANGED <<now, fn, arg, locals>>

\* The application is started again.
start_again ==
    /\ reqs.pc = "done"
    /\ reqs.starts < MaxStarts
    /\ reqs' = [pc |-> "clients", starts |-> reqs.starts + 1, found |-> db]
    /\ ret' = Pending
    /\ UNCHANGED <<db, now, fn, arg, locals>>

SeedNext ==
    \/ seed_clients
    \/ seed_users
    \/ start_again

SeedSpec == SeedInit /\ [][SeedNext]_vars

(***************************************************************************)
(* Properties                                                              *)
(***************************************************************************)
IsText(x) == \A i \in DOMAIN x : x[i] \in STRING

FieldNames == {"standard", "client_compliant", "audit_safe", "notes"}

\* The POST ended in an exception or in a body that is no dict.
TransportFailed == pc # "post" /\ (reply.error # "" \/ reply.data.t # "dict")

\* The model output was obtained and _extract_json raised on it.
ParseFailed ==
    /\ pc \notin {"post", "extract"}
    /\ ~TransportFailed
    /\ ~_extract_json(raw_text).ok

\* _extract_json returned and the validation step has run on its value.
Validated ==
    /\ pc \notin {"post", "extract", "validate"}
    /\ outcome \notin {"transport", "invalid"}

\* The value parsed is a dict that holds a str under each required key.
IsStrAt(v, key) == v.t = "dict" /\ DictHas(v, key) /\ DictGet(v, key).t = "str"

SchemaPassed == Validated /\ \A i \in DOMAIN RequiredKeys : IsStrAt(parsed, RequiredKeys[i])

\* r is p without its leading and trailing whitespace, nothing else changed.
IsTrimOf(r, p) ==
    \E i \in 0..Len(p), j \in 0..Len(p) :
        /\ i + j <= Len(p)
        /\ r = SubSeq(p, i + 1, Len(p) - j)
        /\ \A k \in 1..i : IsSpace(p[k])
        /\ \A k \in (Len(p) - j + 1)..Len(p) : IsSpace(p[k])
        /\ (r = <<>> \/ (~IsSpace(r[1]) /\ ~IsSpace(r[Len(r)])))

\* The token sets the drift check compares, once the fields are extracted.
OTokens == Range(_tokenize(original))
RTokens == Range(_tokenize(fields.standard))
DriftChecked == outcome \in {"drift", "accepted"}

\* C1: for every original, hours, rules and raw model output, call_ollama
\* returns a result whose four fields are strs and raises no exception.
C1_ReturnsResultNeverRaises ==
    /\ pc # "raised"
    /\ (pc = "done" => \A f \in FieldNames : IsText(result[f]))

C3_TransportFailureAsParseFailure ==
    (TransportFailed \/ ParseFailed) =>
        /\ pc = "done"
        /\ result = _simple_fallback_rewrite(original)

C3_Witness ==
    /\ pc = "done"
    /\ reply.error = "TimeoutException"
    /\ original = <<"F","a","r","t","s">>
    /\ result.standard = <<"F","a","r","t","s",".">>
    /\ result.notes = FallbackNote

\* C4: whenever the parsed model output lacks one of the required keys or
\* holds a value that is no str under one, call_ollama returns exactly
\* _simple_fallback_rewrite(original).
C4_SchemaViolationReturnsFallback ==
    (Validated /\ ~SchemaPassed) =>
        /\ pc = "done"
        /\ result = _simple_fallback_rewrite(original)

\* C5: once parsing and the schema check have passed, the call ends in the
\* fallback iff _too_much_drift(original, trimmed standard) holds, and is
\* accepted otherwise: the verdict is a function of the original and the
\* standard field alone.
C5_VerdictFromStandardOnly ==
    (SchemaPassed /\ pc = "done") =>
        LET drift == _too_much_drift(original, Strip(DictGet(parsed, KeyStandard).s))
        IN  /\ outcome \in {"drift", "accepted"}
            /\ (outcome = "drift") <=> drift
            /\ outcome = "drift" => result = _simple_fallback_rewrite(original)
            /\ outcome = "accepted" => IsTrimOf(result.standard, DictGet(parsed, KeyStandard).s)

C5_Witness ==
    /\ pc = "done"
    /\ outcome = "accepted"
    /\ original = NumberedOriginal(3, FALSE)
    /\ result.standard = NumberedRewrite(3, FALSE)
    /\ result.client_compliant = <<"F","a","r","t","s">>
    /\ result.audit_safe = <<>>

\* C6: in an accepted result each field is the parsed field without its
\* leading and trailing whitespace, nothing else changed.
C6_AcceptedFieldsTrimmed ==
    outcome = "accepted" =>
        /\ IsTrimOf(result.standard, DictGet(parsed, KeyStandard).s)
        /\ IsTrimOf(result.client_compliant, DictGet(parsed, KeyClientCompliant).s)
        /\ IsTrimOf(result.audit_safe, DictGet(parsed, KeyAuditSafe).s)
        /\ IsStrAt(parsed, KeyNotes) => IsTrimOf(result.notes, DictGet(parsed, KeyNotes).s)
        /\ \A f \in FieldNames :
               \/ result[f] = <<>>
               \/ (~IsSpace(Head(result[f])) /\ ~IsSpace(result[f][Len(result[f])]))

C6_Witness ==
    /\ outcome = "accepted"
    /\ DictGet(parsed, KeyStandard).s = <<" ","F","a","r","t","s","."," ">>
    /\ result.standard = <<"F","a","r","t","s",".">>
    /\ DictGet(parsed, KeyNotes) = PStr(<<" ","n","\t">>)
    /\ result.notes = <<"n">>

\* C7: in an accepted result notes is "" without a notes key, the trimmed
\* value of a str, the trimmed str() of any other value; a missing or
\* non-str notes is never the reason of a fallback.
C7_NotesCoerced ==
    SchemaPassed =>
        /\ outcome = "accepted" =>
               IF ~DictHas(parsed, KeyNotes) THEN result.notes = <<>>
               ELSE IF DictGet(parsed, KeyNotes).t = "str"
               THEN IsTrimOf(result.notes, DictGet(parsed, KeyNotes).s)
               ELSE /\ IsTrimOf(result.notes, PyStr(DictGet(parsed, KeyNotes)))
                    /\ DictGet(parsed, KeyNotes) = PNone => result.notes = <<"N","o","n","e">>
                    /\ DictGet(parsed, KeyNotes) = PInt(7) => result.notes = <<"7">>
                    /\ DictGet(parsed, KeyNotes) = PBool(TRUE) => result.notes = <<"T","r","u","e">>
        /\ (pc = "done" /\ ~IsStrAt(parsed, KeyNotes) /\ outcome # "accepted") =>
               _too_much_drift(original, Strip(DictGet(parsed, KeyStandard).s))

C7_Witness ==
    /\ outcome = "accepted"
    /\ DictHas(parsed, KeyNotes)
    /\ DictGet(parsed, KeyNotes) = PNone
    /\ result.notes = <<"N","o","n","e">>

\* C8: _too_much_drift(original, rewritten) is false for every rewritten
\* whenever the original holds nothing but stopwords, punctuation and
\* whitespace.
C8_EmptyOriginalNeverDrifts ==
    outcome = "drift" =>
        ~(\A w \in Range(FindWords(ToLower(original))) : w \in STOPWORDS)

C8_Witness ==
    /\ outcome = "accepted"
    /\ original = <<"t","h","e",".">>
    /\ RTokens # {}

\* C9: for an original with tokens O, none a must-preserve token, and rewrite
\* tokens R, _too_much_drift is true iff 10 * |O \cap R| < 3 * |O|.
C9_ThresholdExclusive ==
    DriftChecked =>
        LET O == OTokens
            R == RTokens
        IN  (O # {} /\ O \cap MUST_PRESERVE_TOKENS = {}) =>
                ((outcome = "drift") <=> 10 * Cardinality(O \cap R) < 3 * Cardinality(O))

C9_Witness ==
    /\ outcome = "accepted"
    /\ OTokens \cap MUST_PRESERVE_TOKENS = {}
    /\ Cardinality(OTokens) = 10
    /\ Cardinality(OTokens \cap RTokens) = 3

\* C10: _too_much_drift is true whenever a must-preserve token of the
\* original's tokens is not among the rewrite's tokens; with an overlap ratio
\* of at least 0.30 it is true only then.
C10_MustPreserveOverride ==
    DriftChecked =>
        LET O == OTokens
            R == RTokens
            dropped == \E t \in MUST_PRESERVE_TOKENS : t \in O /\ t \notin R
        IN  /\ dropped => outcome = "drift"
            /\ (outcome = "drift" /\ 10 * Cardinality(O \cap R) >= 3 * Cardinality(O))
                   => dropped

C10_Witness ==
    /\ outcome = "drift"
    /\ Cardinality(OTokens) = 10
    /\ Cardinality(OTokens \cap RTokens) = 9
    /\ Flagged \in OTokens \ RTokens

(***************************************************************************)
(* Properties of the helpers, under CallSpec                               *)
(***************************************************************************)
MinOf(S) == CHOOSE x \in S : \A y \in S : x <= y
MaxOf(S) == CHOOSE x \in S : \A y \in S : x >= y

TokenizeReturned == fn = "_tokenize" /\ ret.kind = "returned"

\* The pairs <<i, j>> such that text[i..j] is a maximal run of word
\* characters.
MaximalRuns(text) ==
    LET starts == {i \in DOMAIN text :
                      IsWordChar(text[i]) /\ (i = 1 \/ ~IsWordChar(text[i - 1]))}
        ends   == {j \in DOMAIN text :
                      IsWordChar(text[j]) /\ (j = Len(text) \/ ~IsWordChar(text[j + 1]))}
    IN  {<<i, MinOf({j \in ends : j >= i})>> : i \in starts}

\* The text with the case of every cased ASCII letter changed.
SwapCase(text) ==
    [i \in DOMAIN text |->
        IF text[i] \in LowerSet THEN Upper(text[i])[1] ELSE Lower(text[i])]

HasStopwordRun(text) ==
    \E r \in MaximalRuns(text) : ToLower(SubSeq(text, r[1], r[2])) \in STOPWORDS

\* C11: _tokenize returns exactly the lower-cased maximal runs of word
\* characters of the text that are no stopword, in the order of the text: no
\* token is a stopword, none holds an upper-case character or a character
\* that is no word character, a text that differs in letter case only gives
\* the same tokens, and the empty text gives none.
C11_TokenizeLowercasedWordRuns ==
    TokenizeReturned =>
        LET text    == arg.s
            toks    == ret.val
            word(r) == ToLower(SubSeq(text, r[1], r[2]))
            kept    == {r \in MaximalRuns(text) : word(r) \notin STOPWORDS}
        IN  /\ Len(toks) = Cardinality(kept)
            /\ \A r \in kept :
                   toks[Cardinality({q \in kept : q[1] < r[1]}) + 1] = word(r)
            /\ \A n \in DOMAIN toks :
                   /\ toks[n] \notin STOPWORDS
                   /\ toks[n] # <<>>
                   /\ \A i \in DOMAIN toks[n] : toks[n][i] \in WordChars \ UpperSet
            /\ toks = _tokenize(SwapCase(text))
            /\ (text = <<>> => toks = <<>>)

\* A text with an upper-case letter, a stopword and a character between the
\* words, of which a token is left.
C11_Witness ==
    /\ TokenizeReturned
    /\ \E i \in DOMAIN arg.s : arg.s[i] \in UpperSet
    /\ \E i \in DOMAIN arg.s : ~IsWordChar(arg.s[i])
    /\ HasStopwordRun(arg.s)
    /\ ret.val # <<>>

\* The tokens joined by single blanks.
RECURSIVE Render(_)
Render(toks) ==
    IF toks = <<>> THEN <<>>
    ELSE IF Len(toks) = 1 THEN toks[1]
    ELSE toks[1] \o <<" ">> \o Render(Tail(toks))

\* C12: the tokens of a text, joined by whitespace and tokenized again, are
\* the same set of tokens.
C12_TokenizeIdempotent ==
    TokenizeReturned => Range(_tokenize(Render(ret.val))) = Range(ret.val)

\* Two tokens or more are left of a text that held a stopword in capitals.
C12_Witness ==
    /\ TokenizeReturned
    /\ Len(ret.val) >= 2
    /\ \E r \in MaximalRuns(arg.s) :
           /\ SubSeq(arg.s, r[1], r[2]) \notin STOPWORDS
           /\ ToLower(SubSeq(arg.s, r[1], r[2])) \in STOPWORDS

ExtractEnded == fn = "_extract_json" /\ ret # Pending

\* The text without its leading and trailing whitespace.
Trimmed(text) ==
    LET inked == {i \in DOMAIN text : ~IsSpace(text[i])}
    IN  IF inked = {} THEN <<>> ELSE SubSeq(text, MinOf(inked), MaxOf(inked))

\* The text from its first "{" to its last "}", or <<>> when no "{" stands
\* before a "}".
Bracketed(text) ==
    LET opens  == {i \in DOMAIN text : text[i] = "{"}
        closes == {i \in DOMAIN text : text[i] = "}"}
    IN  IF opens # {} /\ closes # {} /\ MinOf(opens) < MaxOf(closes)
        THEN SubSeq(text, MinOf(opens), MaxOf(closes))
        ELSE <<>>

\* C13: _extract_json returns what the trimmed text parses to; when that
\* fails, what the text from the first "{" to the last "}" parses to; it
\* raises when the trimmed text does not parse and either no "{" stands
\* before a "}" or that part does not parse.
C13_ExtractJsonDirectThenBraces ==
    ExtractEnded =>
        LET text   == Trimmed(arg.s)
            direct == json_loads(text)
            inner  == json_loads(Bracketed(text))
        IN  IF direct.ok THEN ret = Returned(direct.v)
            ELSE IF Bracketed(text) # <<>> /\ inner.ok THEN ret = Returned(inner.v)
            ELSE ret.kind = "raised"

\* The object is returned from between two lines of prose.
C13_Witness ==
    /\ ExtractEnded
    /\ arg.s = <<"H","e","r","e",":","\n">> \o BaseObject \o <<"\n","H","o","p","e","!">>
    /\ ret = Returned(json_loads(BaseObject).v)
    /\ ret.val.t = "dict"

\* C14: whatever _extract_json returns is a mapping.
C14_ExtractedIsMapping ==
    (fn = "_extract_json" /\ ret.kind = "returned") => ret.val.t = "dict"

FallbackEnded == fn = "_simple_fallback_rewrite" /\ ret # Pending

IsBlank(text) == \A i \in DOMAIN text : IsSpace(text[i])

\* C15: _simple_fallback_rewrite returns for every str; for an empty or
\* all-whitespace original the three rewrites are "Performed legal services."
\* and the notes are the fixed note.
C15_FallbackTotalDefaultPhrase ==
    FallbackEnded =>
        /\ ret.kind = "returned"
        /\ \A f \in {"standard", "client_compliant", "audit_safe", "notes"} :
               IsText(ret.val[f]) /\ ret.val[f] # <<>>
        /\ IsBlank(arg.s) =>
               /\ ret.val.standard =
                      <<"P","e","r","f","o","r","m","e","d"," ","l","e","g","a","l"," ",
                        "s","e","r","v","i","c","e","s",".">>
               /\ ret.val.client_compliant = ret.val.standard
               /\ ret.val.audit_safe = ret.val.standard
               /\ ret.val.notes = FallbackNote

\* An original of whitespace only.
C15_Witness ==
    /\ FallbackEnded
    /\ arg.s # <<>>
    /\ IsBlank(arg.s)
    /\ ret.val.standard = DefaultPhrase

\* C16: for an original that is not blank the three rewrites are the trimmed
\* original with its first character upper-cased, and a period after it if
\* and only if it does not end with one.
C16_FallbackCapitalisedWithPeriod ==
    (FallbackEnded /\ ~IsBlank(arg.s)) =>
        LET text   == Trimmed(arg.s)
            capped == Upper(text[1]) \o Tail(text)
            out    == ret.val.standard
        IN  /\ ret.val.client_compliant = out
            /\ ret.val.audit_safe = out
            /\ out[Len(out)] = "."
            /\ out = IF text[Len(text)] = "." THEN capped ELSE capped \o <<".">>

\* An original with whitespace before a lower-case letter and no period at
\* its end.
C16_Witness ==
    /\ FallbackEnded
    /\ Len(arg.s) >= 2
    /\ IsSpace(arg.s[1])
    /\ Trimmed(arg.s) # <<>>
    /\ Trimmed(arg.s)[1] \in LowerSet
    /\ arg.s[Len(arg.s)] # "."
    /\ ret.val.standard[1] \in UpperSet

(***************************************************************************)
(* Properties of the validators, under CallSpec                            *)
(***************************************************************************)
ClientIdEnded == fn = "validate_client_id" /\ ret # Pending

RaisedBadRequest == ret.kind = "raised" /\ ret.val.status_code = 400

\* The letters and digits the claim is about: those of ASCII, which the
\* message of the HTTPException means too.
AsciiLettersAndDigits == LowerSet \cup UpperSet \cup DigitSet

SanitizeEnded == fn = "sanitize_text_input" /\ ret # Pending

\* C20: sanitize_text_input returns "" for None; of any other text it drops
\* the null bytes, raises an HTTPException of status 400 if what remains is
\* longer than max_length, and otherwise returns what remains without its
\* leading and trailing whitespace: the text returned holds no null byte and
\* is no longer than max_length.
C20_SanitizeDropsNullsBoundsLength ==
    SanitizeEnded =>
        IF arg.text.t = "None" THEN ret = Returned(<<>>)
        ELSE LET kept == {i \in DOMAIN arg.text.s : arg.text.s[i] # NullByte}
                 remaining == [n \in 1..Cardinality(kept) |->
                                  arg.text.s[CHOOSE i \in kept :
                                      Cardinality({k \in kept : k < i}) = n - 1]]
             IN  IF Len(remaining) > arg.max_length THEN RaisedBadRequest
                 ELSE /\ ret.kind = "returned"
                      /\ IsTrimOf(ret.val, remaining)
                      /\ NullByte \notin Range(ret.val)
                      /\ Len(ret.val) <= arg.max_length

\* A text with a null byte and with whitespace at an end, as long as
\* max_length once the null byte is gone, is returned shorter.
C20_Witness ==
    /\ SanitizeEnded
    /\ arg.text.t = "str"
    /\ NullByte \in Range(arg.text.s)
    /\ Len(arg.text.s) = arg.max_length + 1
    /\ ret.kind = "returned"
    /\ ret.val # <<>>
    /\ Len(ret.val) < arg.max_length

PasswordEnded == fn = "validate_password" /\ ret # Pending

\* C21: validate_password accepts a password if and only if it has at least
\* 8 characters and holds an upper-case letter, a lower-case letter and a
\* digit; otherwise it raises an HTTPException of status 400 whose detail
\* names the first rule broken, in the order length, upper case, lower case,
\* digit.
C21_PasswordRulesInOrder ==
    PasswordEnded =>
        LET p == arg.s
            long  == Cardinality(DOMAIN p) >= 8
            upper == \E i \in DOMAIN p : p[i] \in Range(UpperLetters)
            lower == \E i \in DOMAIN p : p[i] \in Range(LowerLetters)
            digit == \E i \in DOMAIN p : p[i] \in Range(Digits)
            broken == IF ~long THEN "Password must be at least 8 characters long"
                      ELSE IF ~upper THEN "Password must contain at least one uppercase letter"
                      ELSE IF ~lower THEN "Password must contain at least one lowercase letter"
                      ELSE "Password must contain at least one number"
        IN  /\ (ret.kind = "returned") <=> (long /\ upper /\ lower /\ digit)
            /\ ret.kind # "returned" =>
                   /\ ret.kind = "raised"
                   /\ ret.val.status_code = 400
                   /\ ret.val.detail = broken

\* A password of 8 characters or more without a letter of either case is
\* refused for the upper-case letter.
C21_Witness ==
    /\ PasswordEnded
    /\ Len(arg.s) >= 8
    /\ \A i \in DOMAIN arg.s : arg.s[i] \notin UpperSet \cup LowerSet
    /\ ret.kind = "raised"
    /\ ret.val.detail = "Password must contain at least one uppercase letter"

\* C22: the drift check of an original against the standard rewrite of its
\* own fallback is false.
C22_FallbackPassesOwnDriftCheck ==
    (/\ fn = "_too_much_drift"
     /\ ret.kind = "returned"
     /\ arg.rewritten = _simple_fallback_rewrite(arg.original).standard)
        => ret.val = FALSE

(***************************************************************************)
(* Properties of call_ollama as a whole, under Spec                        *)
(***************************************************************************)
\* The notes call_ollama returns with an original after _extract_json raised.
NotesOfInvalidOutput == _simple_fallback_rewrite(original).notes

\* C17: a result rejected for a schema violation or for drift carries other
\* notes than the result the same original gets when the model output does
\* not parse.
C17_RejectionReasonsDistinguishable ==
    (pc = "done" /\ outcome \in {"schema", "drift"}) =>
        result.notes # NotesOfInvalidOutput

\* What call_ollama ends with, computed from the original and the reply to
\* the POST and from nothing else.
RewriteOf(orig, r) ==
    IF r.error # "" \/ r.data.t # "dict"
    THEN [outcome |-> "transport", result |-> _simple_fallback_rewrite(orig)]
    ELSE LET raw == IF DictHas(r.data, ResponseKey)
                    THEN DictGet(r.data, ResponseKey)
                    ELSE PStr(<<>>)
             e   == _extract_json(raw)
         IN  IF ~e.ok
             THEN [outcome |-> "invalid", result |-> _simple_fallback_rewrite(orig)]
             ELSE LET verdict == Validate(e.v)
                      text(key) == Strip(DictGet(e.v, key).s)
                  IN  IF verdict = "TypeError"
                      THEN [outcome |-> "TypeError", result |-> NoFields]
                      ELSE IF verdict = "fallback"
                      THEN [outcome |-> "schema", result |-> _simple_fallback_rewrite(orig)]
                      ELSE IF _too_much_drift(orig, text(KeyStandard))
                      THEN [outcome |-> "drift", result |-> _simple_fallback_rewrite(orig)]
                      ELSE [outcome |-> "accepted",
                            result  |-> RewriteResponse(text(KeyStandard),
                                                        text(KeyClientCompliant),
                                                        text(KeyAuditSafe),
                                                        Strip(NotesOf(e.v)))]

C23_BlankOriginalRejectedFirst ==
    /\ \A r \in Requests :
           (IsBlank(reqs[r].original) /\ reqs[r].pc # "start") =>
               /\ reqs[r].pc = "done"
               /\ reqs[r].status_code = 400
               /\ ~reqs[r].llm_called
               /\ reqs[r].committed = {}
    /\ \A te \in db.time_entries : ~IsBlank(te.original)

\* A blank rewrite request and a blank rewrite_and_save request for a client
\* that does not exist have both been answered with 400, next to nothing in
\* the tables.
C23_Witness ==
    /\ \E r \in Requests :
           /\ reqs[r].handler = "rewrite"
           /\ reqs[r].original = <<" ", "\n">>
           /\ reqs[r].status_code = 400
    /\ \E r \in Requests :
           /\ reqs[r].handler = "rewrite_and_save"
           /\ reqs[r].original = <<>>
           /\ reqs[r].client_id = "C999"
           /\ reqs[r].status_code = 400
    /\ db.time_entries = {} /\ db.rewrites = {} /\ db.audit_events = {}

\* C24: whenever no request stands between two of its commits, whether it
\* went through, failed or was interrupted, every TimeEntry has a
\* RewriteRecord and every RewriteRecord has an AuditEvent that references
\* it.
C24_AuditTrailComplete ==
    (\A r \in Requests : reqs[r].pc \in {"start", "llm", "time_entry", "done"}) =>
        /\ \A te \in db.time_entries :
               \E rw \in db.rewrites : rw.time_entry_id = te.id
        /\ \A rw \in db.rewrites :
               \E ae \in db.audit_events : ae.rewrite_id = rw.id

\* C25: two rewrite_and_save requests that have made their ids have made
\* different ones.
C25_IdsDistinct ==
    \A r1, r2 \in Requests :
        (r1 # r2 /\ reqs[r1].now_ts # NoTimestamp /\ reqs[r2].now_ts # NoTimestamp) =>
            RowId("TE", reqs[r1].now_ts) # RowId("TE", reqs[r2].now_ts)

(***************************************************************************)
(* Properties of the admin API, under AdminSpec                            *)
(***************************************************************************)
\* The account that was seeded with the username "admin": the first row of
\* the table users.
SeededAdmin == UsersWithId(1)

\* C26: after any sequence of admin API calls the account seeded with the
\* username "admin" still exists, is active and has the role admin.
C26_BuiltInAdminProtected ==
    \E user \in SeededAdmin : user.is_active /\ user.role = "admin"

\* C27: after a successful revoke_client_permission(user_id, client_id) for
\* a user who is not an admin, check_client_access(user, client_id) is
\* false, whatever calls of assign_client_permission and
\* set_user_permissions came before.
C27_RevokedPermissionDeniesAccess ==
    [][\A user_id \in UserIds, client_id \in DemoClientIds :
           (/\ db.permissions[<<user_id, client_id>>] > 0
            /\ revoke_client_permission(user_id, client_id))
           => \A user \in UsersWithId(user_id) :
                  user.role # "admin" => ~(check_client_access(user, client_id))']_vars


(***************************************************************************)
(* Properties of restore_version, under HistorySpec                        *)
(***************************************************************************)
CurrentVersionsOf(versions, time_entry_id) ==
    {v \in VersionsOf(versions, time_entry_id) : v.is_current}

\* C28: after every completed restore_version on a time entry exactly one
\* RewriteVersion of that time entry has is_current = true; it is the newly
\* created version and it carries the standard, client_compliant and
\* audit_safe texts of the restored version; the versions of the other
\* time entries are unchanged.
C28_RestoreLeavesOneCurrent ==
    [][\A r \in Requests :
           restore_version_commit(r) =>
               LET time_entry_id == reqs[r].time_entry_id
                   restored == {v \in db.versions : v.id = reqs[r].version_id}
                   current == CurrentVersionsOf(db'.versions, time_entry_id)
               IN /\ Cardinality(current) = 1
                  /\ restored # {}
                  /\ \A new \in current :
                         /\ new.id \notin Ids(db.versions)
                         /\ new.id = reqs'[r].new_id
                         /\ \A v \in restored :
                                /\ v.time_entry_id = time_entry_id
                                /\ new.standard = v.standard
                                /\ new.client_compliant = v.client_compliant
                                /\ new.audit_safe = v.audit_safe
                  /\ \A other \in TimeEntryIds \ {time_entry_id} :
                         VersionsOf(db'.versions, other) = VersionsOf(db.versions, other)]_vars

\* Two requests have restored versions of one time entry, one after the
\* other or interleaved, and the version of the later one is the current.
C28_Witness ==
    \E r1, r2 \in Requests :
        /\ r1 # r2
        /\ reqs[r1].pc = "done" /\ reqs[r1].status_code = 200
        /\ reqs[r2].pc = "done" /\ reqs[r2].status_code = 200
        /\ reqs[r1].time_entry_id = reqs[r2].time_entry_id
        /\ reqs[r1].new_id < reqs[r2].new_id
        /\ \E v \in CurrentVersionsOf(db.versions, reqs[r2].time_entry_id) :
               v.id = reqs[r2].new_id

\* C29: the version numbers of a time entry are pairwise distinct and each
\* restore_version creates a version whose number is strictly greater than
\* that of every version the time entry already has, under any
\* interleaving of concurrent restore_version requests.  (The ids of the
\* model grow in the order of creation.)
C29_VersionNumbersIncrease ==
    \A v1, v2 \in db.versions :
        (v1.time_entry_id = v2.time_entry_id /\ v1.id < v2.id) =>
            v1.version_number < v2.version_number


(***************************************************************************)
(* Properties of the start of the application, under SeedSpec              *)
(***************************************************************************)
SeedEnded == reqs.pc = "done"

\* C30: on an empty database seed_demo_clients_and_admin completes without
\* an error and leaves the three demo clients and the users admin, of role
\* admin, and demo, of role user, both active; a run that finds clients and
\* users changes nothing.
C30_SeedCompletesAndIsIdempotent ==
    SeedEnded =>
        /\ (reqs.found.clients = {} /\ reqs.found.users = {}) =>
               /\ ret = Returned(PNone)
               /\ db.clients = DemoClientIds
               /\ {[username |-> u.username, role |-> u.role, is_active |-> u.is_active] :
                      u \in db.users}
                  = {[username |-> "admin", role |-> "admin", is_active |-> TRUE],
                     [username |-> "demo", role |-> "user", is_active |-> TRUE]}
        /\ (reqs.found.clients # {} /\ reqs.found.users # {}) =>
               /\ ret = Returned(PNone)
               /\ db = reqs.found


====
